---------------------------- MODULE Spec2Model ----------------------------
(***************************************************************************)
(* Verification model of the uav_4g_mqtt firmware core.                    *)
(*                                                                         *)
(* SpecRing, SpecTx: the UART DMA byte channel of uart_dma.c, with the DMA  *)
(* peripheral as an autonomous producer.                                   *)
(* SpecCmd: the command channel of a7600_mqtt.c (send_at_cmd,              *)
(* wait_response, send_and_wait) step by step, on a link whose modem       *)
(* answers early, late or never.                                           *)
(* SpecConnect: A7600_MQTT_Connect over exchanges taken as single steps.   *)
(* SpecDisc, SpecPub, SpecSub: A7600_MQTT_Disconnect, A7600_MQTT_Publish    *)
(* and A7600_MQTT_Subscribe over the stepwise command channel.             *)
(* SpecProc, SpecInbound: A7600_MQTT_Process on unsolicited modem reports  *)
(* and the message callback down to MavlinkBridge_OnMessage.               *)
(* SpecCodec: the hex and Base64 conversions of mavlink_bridge.c.          *)
(* SpecBridge, SpecStale: MavlinkBridge_Process on a telemetry stream that *)
(* arrives in pieces, with the tick counter.                               *)
(* SpecDense: MavlinkBridge_Process on back-to-back frames that fill its   *)
(* accumulation buffer.                                                    *)
(* SpecFill: the response buffer of a7600_mqtt.c under a modem that keeps  *)
(* sending.                                                                *)
(* SpecPubArgs: A7600_MQTT_Publish as a function of its arguments and of   *)
(* what the link does at each of its stages.                               *)
(* SpecMix: A7600_MQTT_Process on a link that also carries the exchanges   *)
(* of a subscribe.                                                         *)
(* SpecHeader: the frame length MavlinkBridge_Process computes, for every  *)
(* header.                                                                 *)
(* SpecApp: the application loop of app.c over session calls taken whole.  *)
(* SpecStream: UART_DMA_Read and UART_DMA_ReadByte statement by statement  *)
(* against the DMA producer.                                               *)
(***************************************************************************)
EXTENDS Integers, Sequences, FiniteSets, TLC

VARIABLES
    \* ---- UART_DMA_Handle_t (uart_dma.h:24-35) and its DMA peripheral ----
    dma_counter,     \* NDTR of the RX DMA stream: counts down, reloads at 0
    uart_rx_buffer,  \* handle->rx_buffer, the circular DMA target
    rx_read_pos,     \* handle->rx_read_pos
    tx_buffer,       \* handle->tx_buffer
    tx_busy,         \* handle->tx_busy
    \* ---- observation of the byte channel ----
    produced,        \* every byte the DMA producer has written, in order
    n_consumed,      \* number of produced bytes already read or flushed
    last,            \* the operation just executed, with its arguments,
                     \* the state it started from and what it returned
    \* ---- the modem link: the modem UART seen from a7600_mqtt.c ----
    link_rx,         \* bytes the DMA has stored and the driver has not read
    hw_tx,           \* data of the last transfer handed to the transmitter
    modem_out,       \* bytes the modem has decided to send, not yet sent
    \* ---- A7600_MQTT_Handle_t (a7600_mqtt.h:82-101) ----
    rx_buffer,       \* handle->rx_buffer[0 .. rx_len-1]
    rx_len,          \* handle->rx_len
    \* ---- the frame of send_and_wait / send_at_cmd / wait_response ----
    cpc,             \* position inside the exchange
    cmd,             \* argument cmd
    expected,        \* argument expected
    timeout_ms,      \* argument timeout_ms
    el,              \* HAL_GetTick() - start of the loop being executed
    cres,            \* the value returned
    \* ---- the caller ----
    pc,              \* position of the calling operation
    \* ---- observation of the exchange ----
    sent,            \* the command was handed to the transmitter
    stream,          \* bytes the link held at the call, then those delivered
    polled,          \* length of stream when wait_response last polled
    in_window,       \* expected was delivered less than timeout_ms after
                     \* wait_response began
    ans_from,        \* length of stream in front of the modem's answer to
                     \* the command of this exchange (-1: not answered)
    \* ---- A7600_MQTT_Handle_t, the session fields ----
    state,           \* handle->state
    connected,       \* handle->connected
    error_step,      \* handle->error_step
    last_response,   \* handle->last_response
    use_ssl,         \* handle->config.use_ssl
    \* ---- the frame of the session operation ----
    retry,           \* local retry of A7600_MQTT_Connect
    result,          \* the value the last operation returned
    \* ---- observation of the session operation ----
    last_api,        \* the operation called last
    n_calls,         \* operations called so far
    phase_res,       \* per bring-up phase, how its deciding exchange ended
    max_tx,          \* highest phase a command of which was transmitted
    tx_log,          \* the exchanges of the teardown or publish in
                     \* progress: command, and whether it was transmitted
    pub_len,         \* argument len of A7600_MQTT_Publish
    \* ---- inbound messages ----
    msg_callback,    \* handle->msg_callback is set
    proc,            \* the last run of A7600_MQTT_Process: the buffer it
                     \* had accumulated and what it did
    cb_count,        \* calls of the message callback so far
    tel_tx,          \* every transfer UART_DMA_Transmit was asked to make
                     \* on the telemetry UART, in order
    \* ---- mavlink_bridge.c: the bridge singleton and its clock ----
    bridge_rx_buf,   \* bridge.rx_buf[0 .. bridge.rx_len - 1]
    last_rx_tick,    \* bridge.last_rx_tick
    now,             \* HAL_GetTick()
    tel_stream,      \* what the vehicle sends in this behaviour: garbage
                     \* bytes, frames and truncated frames, in order
    tel_in,          \* telemetry bytes the vehicle has still to send
    tel_pause,       \* number of bytes left in tel_in when the vehicle
                     \* pauses for longer than the frame timeout (-1: none)
    tel_rx,          \* telemetry bytes in the UART ring, not read yet
    pub_log,         \* every A7600_MQTT_PublishString of send_frame
    timed_out,       \* an accumulation was discarded by the frame timeout
    codec,           \* the codec function exercised and its argument/result
    \* ---- App_Handle_t (app.h:48-55) ----
    app,             \* app->state, app->last_publish_tick,
                     \* app->last_reconnect_tick, app->error_count
    \* ---- a UART_DMA_Read or UART_DMA_ReadByte taken step by step ----
    rd               \* position in the call, its locals, and every byte
                     \* such calls have returned so far, in order

ringVars == <<dma_counter, uart_rx_buffer, rx_read_pos, produced, n_consumed>>
txVars   == <<tx_buffer, tx_busy>>
\* the byte-channel model without the tx_busy flag, which both layers use
chanVars == <<dma_counter, uart_rx_buffer, rx_read_pos, produced, n_consumed,
              tx_buffer, last, app, rd>>
linkVars == <<link_rx, hw_tx, modem_out>>
bufVars  == <<rx_buffer, rx_len>>
callVars == <<cpc, cmd, expected, timeout_ms, el, cres>>
obsVars  == <<sent, stream, polled, in_window, ans_from>>
procVars == <<msg_callback, proc, cb_count, tel_tx>>
bridgeState == <<bridge_rx_buf, last_rx_tick, now, tel_stream, tel_in,
                 tel_pause, tel_rx, pub_log, timed_out>>
bridgeVars == <<bridgeState, codec>>
coreVars == <<state, connected, error_step, last_response, use_ssl,
              retry, result, last_api, n_calls, phase_res, max_tx,
              tx_log, pub_len>>
\* everything the command channel and the session own
driverVars == <<linkVars, bufVars, callVars, obsVars, pc, coreVars>>
sessVars == <<state, connected, error_step, last_response, use_ssl,
              retry, result, last_api, n_calls, phase_res, max_tx,
              tx_log, pub_len, msg_callback, proc, cb_count, tel_tx,
              bridge_rx_buf, last_rx_tick, now, tel_stream, tel_in,
              tel_pause, tel_rx, pub_log, timed_out, codec>>
cmdVars  == <<link_rx, hw_tx, modem_out, rx_buffer, rx_len,
              cpc, cmd, expected, timeout_ms, el, cres, pc,
              sent, stream, polled, in_window, ans_from, sessVars, app,
              rd>>
vars     == <<dma_counter, uart_rx_buffer, rx_read_pos, tx_buffer, tx_busy,
              produced, n_consumed, last,
              link_rx, hw_tx, modem_out, rx_buffer, rx_len,
              cpc, cmd, expected, timeout_ms, el, cres, pc,
              sent, stream, polled, in_window, ans_from,
              state, connected, error_step, last_response, use_ssl,
              retry, result, last_api, n_calls, phase_res, max_tx,
              tx_log, pub_len, msg_callback, proc, cb_count, tel_tx,
              bridge_rx_buf, last_rx_tick, now, tel_stream, tel_in,
              tel_pause, tel_rx, pub_log, timed_out, codec, app,
              rd>>

-----------------------------------------------------------------------------
(* Bounds of the byte-channel model.                                       *)

\* UART_DMA_RX_BUFFER_SIZE (uart_dma.h:18, 512 in the build), scaled.
RingSize == 4
\* UART_DMA_TX_BUFFER_SIZE (uart_dma.h:19, 512 in the build), scaled.
TxSize == 2
\* number of bytes the producer writes in one behaviour
MaxProduced == 6
\* longest data argument of UART_DMA_Transmit / largest len of UART_DMA_Read
MaxLen == 3

Byte == {"a", "b"}

Min(a, b) == IF a < b THEN a ELSE b

SeqsUpTo(S, n) == UNION {[1..k -> S] : k \in 0..n}

NoOp == [op |-> "init"]

\* no read in progress, nothing returned yet
NoRead == [pc |-> "idle", out |-> <<>>]

-----------------------------------------------------------------------------
(* uart_dma.c                                                              *)

\* __HAL_DMA_GET_COUNTER: the stream's remaining-transfer count
HAL_DMA_GET_COUNTER == dma_counter

UART_DMA_GetDMAPos == RingSize - HAL_DMA_GET_COUNTER

\* a wrap-around case that forgets the distance to the end of the buffer
UART_DMA_Available_NoWrap ==
    LET dma_pos  == RingSize - dma_counter
        read_pos == rx_read_pos
    IN  IF dma_pos >= read_pos THEN dma_pos - read_pos ELSE dma_pos

UART_DMA_Available ==
    LET dma_pos  == UART_DMA_GetDMAPos
        read_pos == rx_read_pos
    IN  IF dma_pos >= read_pos
        THEN dma_pos - read_pos
        ELSE RingSize - read_pos + dma_pos

\* The copy loop of UART_DMA_Read: i runs from 0 to to_read - 1.
\* Returns the local read_pos and the bytes stored to data[0..to_read-1].
RECURSIVE ReadLoop(_, _, _, _)
ReadLoop(i, to_read, read_pos, data) ==
    IF i < to_read
    THEN ReadLoop(i + 1, to_read, (read_pos + 1) % RingSize,
                  Append(data, uart_rx_buffer[read_pos]))
    ELSE [read_pos |-> read_pos, data |-> data, read_count |-> i]

\* a read that trusts len and does not clamp it to what is available
UART_DMA_Read_NoClamp(len) == ReadLoop(0, len, rx_read_pos, <<>>)

UART_DMA_Read_Result(len) ==
    LET available == UART_DMA_Available
        to_read   == IF len < available THEN len ELSE available
    IN  ReadLoop(0, to_read, rx_read_pos, <<>>)

\* what a consumer operation started from / what a transmit started from
RxSnapshot == [pos |-> rx_read_pos, dma_pos |-> UART_DMA_GetDMAPos,
               avail |-> UART_DMA_Available]
TxSnapshot == [tx_buffer |-> tx_buffer, tx_busy |-> tx_busy]

\* One received byte: the DMA stores it at its write position and its
\* counter decrements, reloading to the buffer size in circular mode.
DMA_Receive(b) ==
    /\ Len(produced) < MaxProduced
    /\ uart_rx_buffer' = [uart_rx_buffer EXCEPT ![RingSize - dma_counter] = b]
    /\ dma_counter' = IF dma_counter = 1 THEN RingSize ELSE dma_counter - 1
    /\ produced' = Append(produced, b)
    /\ last' = [op |-> "dma"]
    /\ UNCHANGED <<rx_read_pos, n_consumed, txVars, cmdVars>>

UART_DMA_Read(len) ==
    LET r == UART_DMA_Read_Result(len)
    IN  /\ rx_read_pos' = r.read_pos
        /\ n_consumed' = n_consumed + r.read_count
        /\ last' = [op |-> "read", len |-> len, ret |-> r.read_count,
                    data |-> r.data, pre |-> RxSnapshot]
        /\ UNCHANGED <<dma_counter, uart_rx_buffer, produced, txVars, cmdVars>>

UART_DMA_ReadByte ==
    /\ IF UART_DMA_Available = 0
       THEN /\ last' = [op |-> "readbyte", ret |-> FALSE, pre |-> RxSnapshot]
            /\ UNCHANGED <<rx_read_pos, n_consumed>>
       ELSE /\ rx_read_pos' = (rx_read_pos + 1) % RingSize
            /\ n_consumed' = n_consumed + 1
            /\ last' = [op |-> "readbyte", ret |-> TRUE,
                        data |-> uart_rx_buffer[rx_read_pos], pre |-> RxSnapshot]
    /\ UNCHANGED <<dma_counter, uart_rx_buffer, produced, txVars, cmdVars>>

\* a flush that takes the remaining-transfer count for the write position
UART_DMA_FlushRx_RawCounter ==
    /\ rx_read_pos' = HAL_DMA_GET_COUNTER
    /\ n_consumed' = Len(produced)
    /\ last' = [op |-> "flush", pre |-> RxSnapshot]
    /\ UNCHANGED <<dma_counter, uart_rx_buffer, produced, txVars, cmdVars>>

UART_DMA_FlushRx ==
    /\ rx_read_pos' = UART_DMA_GetDMAPos
    /\ n_consumed' = Len(produced)
    /\ last' = [op |-> "flush", pre |-> RxSnapshot]
    /\ UNCHANGED <<dma_counter, uart_rx_buffer, produced, txVars, cmdVars>>

UART_DMA_TxCplt_Callback ==
    /\ tx_busy
    /\ tx_busy' = FALSE
    /\ last' = [op |-> "txcplt"]
    /\ UNCHANGED <<ringVars, tx_buffer, cmdVars>>

\* memcpy(handle->tx_buffer, data, to_send)
MemcpyTx(data, to_send) ==
    [i \in 1..TxSize |-> IF i <= to_send THEN data[i] ELSE tx_buffer[i]]

\* a transmit that overwrites the buffer of a transfer still in flight
UART_DMA_Transmit_NoBusyCheck(data, status) ==
    LET len == Len(data)
        to_send == IF len > TxSize THEN TxSize ELSE len
    IN  /\ tx_buffer' = MemcpyTx(data, to_send)
        /\ tx_busy' = (status = "HAL_OK")
        /\ last' = [op |-> "transmit", data |-> data, ret |-> status,
                    hw_len |-> to_send, pre |-> TxSnapshot]
        /\ UNCHANGED <<ringVars, cmdVars>>

\* status is what HAL_UART_Transmit_DMA returns when it is reached
UART_DMA_Transmit(data, status) ==
    LET len == Len(data)
        to_send == IF len > TxSize THEN TxSize ELSE len
    IN  /\ IF len = 0
           THEN /\ last' = [op |-> "transmit", data |-> data, ret |-> "HAL_OK",
                            hw_len |-> 0, pre |-> TxSnapshot]
                /\ UNCHANGED txVars
           ELSE IF tx_busy
           THEN /\ last' = [op |-> "transmit", data |-> data, ret |-> "HAL_BUSY",
                            hw_len |-> 0, pre |-> TxSnapshot]
                /\ UNCHANGED txVars
           ELSE /\ tx_buffer' = MemcpyTx(data, to_send)
                /\ tx_busy' = (status = "HAL_OK")
                /\ last' = [op |-> "transmit", data |-> data, ret |-> status,
                            hw_len |-> to_send, pre |-> TxSnapshot]
        /\ UNCHANGED <<ringVars, cmdVars>>

-----------------------------------------------------------------------------
(* The modem link and the response buffer before any exchange.             *)

\* the application handle after App_Init
AppHandle ==
    [state |-> "WAIT_MODULE", last_publish_tick |-> 0,
     last_reconnect_tick |-> 0, error_count |-> 0]

\* UART_DMA_Init on the modem UART: nothing received, transmitter free
InitLink ==
    /\ link_rx = <<>>
    /\ hw_tx = "none"
    /\ modem_out = <<>>

\* A7600_MQTT_Init: rx_len = 0, clear_rx_buffer; no exchange in progress
InitCall ==
    /\ rx_buffer = <<>>
    /\ rx_len = 0
    /\ cpc = "idle"
    /\ cmd = "none"
    /\ expected = <<>>
    /\ timeout_ms = 0
    /\ el = 0
    /\ cres = FALSE
    /\ sent = FALSE
    /\ stream = <<>>
    /\ polled = 0
    /\ in_window = FALSE
    /\ ans_from = -1

\* MavlinkBridge_Init: empty accumulation, last_rx_tick 0; the telemetry
\* UART has received nothing.
InitBridge ==
    /\ bridge_rx_buf = <<>>
    /\ last_rx_tick = 0
    /\ now = 0
    /\ tel_stream = <<>>
    /\ tel_in = <<>>
    /\ tel_pause = -1
    /\ tel_rx = <<>>
    /\ pub_log = <<>>
    /\ timed_out = FALSE

\* A7600_MQTT_Process has not run and no message was dispatched; the
\* application registers its callback right after A7600_MQTT_Init.
InitProc ==
    /\ msg_callback = TRUE
    /\ proc = [ran |-> FALSE, acc |-> <<>>, invoked |-> FALSE]
    /\ cb_count = 0
    /\ tel_tx = <<>>

\* A7600_MQTT_Init: state Idle, connected false; no operation called yet.
\* error_step and last_response are not written by A7600_MQTT_Init.
InitSessionCore ==
    /\ state = "Idle"
    /\ connected = FALSE
    /\ last_response = <<>>
    /\ retry = 0
    /\ result = "none"
    /\ last_api = "none"
    /\ n_calls = 0
    /\ phase_res = [n \in 1..10 |-> "none"]
    /\ max_tx = 0
    /\ tx_log = <<>>
    /\ pub_len = 0
    /\ InitProc
    /\ InitBridge

\* no codec function has been called
InitSession ==
    /\ InitSessionCore
    /\ codec = [op |-> "none"]

-----------------------------------------------------------------------------
(* SpecRing: the byte channel under every interleaving of the DMA producer *)
(* with the consumer and transmit operations.                              *)

\* UART_DMA_Init: buffers zeroed, read position 0, DMA reception armed.
InitChannel ==
    /\ dma_counter = RingSize
    /\ uart_rx_buffer = [i \in 0..(RingSize - 1) |-> 0]
    /\ rx_read_pos = 0
    /\ tx_buffer = [i \in 1..TxSize |-> 0]
    /\ tx_busy = FALSE
    /\ produced = <<>>
    /\ n_consumed = 0
    /\ last = NoOp
    /\ app = AppHandle
    /\ rd = NoRead

InitRing ==
    /\ InitChannel
    /\ InitLink
    /\ InitCall
    /\ InitSession
    /\ use_ssl = FALSE
    /\ error_step = 0
    /\ pc = "none"

NextRing ==
    \/ \E b \in Byte : DMA_Receive(b)
    \/ \E len \in 0..MaxLen : UART_DMA_Read(len)
    \/ UART_DMA_ReadByte
    \/ UART_DMA_FlushRx

SpecRing == InitRing /\ [][NextRing]_vars

\* bytes written by the producer and not yet read or flushed
Unread == Len(produced) - n_consumed

(* C1 as stated: for every interleaving of producer and consumer steps,    *)
(* UART_DMA_Available equals the number of produced bytes not yet read or  *)
(* flushed.                                                                *)
C1_AvailableIsUnread == UART_DMA_Available = Unread

(* C1 amended: UART_DMA_Available equals the unread count modulo the       *)
(* capacity, hence the unread count itself whenever the producer is fewer  *)
(* than a full buffer ahead of the read cursor.                            *)
C1_AvailableIsUnreadModC ==
    /\ UART_DMA_Available = Unread % RingSize
    /\ Unread < RingSize => UART_DMA_Available = Unread

\* the write cursor has wrapped behind the read cursor after reads and
\* unread bytes straddle the end of the buffer
C1_Witness ==
    /\ UART_DMA_GetDMAPos < rx_read_pos
    /\ UART_DMA_GetDMAPos > 0
    /\ n_consumed > 0
    /\ last.op \in {"read", "readbyte"}
    /\ UART_DMA_Available = Unread
    /\ Unread >= 2

(* C2: UART_DMA_Read(buf, maxLen) returns n = min(maxLen, available),      *)
(* copies the n bytes starting at the read cursor in order, wrapping at    *)
(* the capacity, advances the read cursor by n modulo the capacity, and    *)
(* the available count right after the read is the one before minus n.     *)
C2_ReadContract ==
    last.op = "read" =>
        /\ last.ret = Min(last.len, last.pre.avail)
        /\ Len(last.data) = last.ret
        /\ \A i \in 1..last.ret :
              last.data[i] = uart_rx_buffer[(last.pre.pos + i - 1) % RingSize]
        /\ rx_read_pos = (last.pre.pos + last.ret) % RingSize
        /\ UART_DMA_Available = last.pre.avail - last.ret

\* a read of fewer bytes than available whose bytes straddle the buffer end
C2_Witness ==
    /\ last.op = "read"
    /\ last.ret >= 2
    /\ last.len < last.pre.avail
    /\ last.pre.pos + last.ret > RingSize
    /\ last.data[1] # last.data[2]

\* the steps of the consumer (main loop) and of the producer (DMA)
ConsumerOps == {"read", "readbyte", "flush"}

\* how far the read cursor is from where the last consumer operation found it
CursorAdvance == (rx_read_pos - last.pre.pos) % RingSize

(* C20: consumer operations write only the read cursor, never the write    *)
(* cursor or the buffer contents; the producer never writes the read       *)
(* cursor; after every consumer operation the read cursor lies in          *)
(* 0..C-1 and has not moved past the write position the operation saw.     *)
C20_LockFreeSafety ==
    /\ [][ (last'.op \in ConsumerOps /\ last' # last)
              => UNCHANGED <<dma_counter, uart_rx_buffer>> ]_vars
    /\ [][ (last'.op = "dma") => UNCHANGED rx_read_pos ]_vars
    /\ [](rx_read_pos \in 0..(RingSize - 1))
    /\ [](last.op \in ConsumerOps => CursorAdvance <= last.pre.avail)

\* a flush or read that found the write cursor wrapped behind the read
\* cursor and moved the read cursor up to it across the buffer end
C20_Witness ==
    /\ last.op \in ConsumerOps
    /\ last.pre.dma_pos < last.pre.pos
    /\ last.pre.avail >= 2
    /\ rx_read_pos = last.pre.dma_pos
    /\ rx_read_pos > 0

(* SpecTx: the transmit path of the byte channel, with the completion      *)
(* interrupt arriving at any time after a transfer was started.            *)
NextTx ==
    \/ UART_DMA_TxCplt_Callback
    \/ \E data \in SeqsUpTo(Byte, MaxLen), status \in {"HAL_OK", "HAL_ERROR"} :
          UART_DMA_Transmit(data, status)

SpecTx == InitRing /\ [][NextTx]_vars

-----------------------------------------------------------------------------
(* Layer B: the command channel of a7600_mqtt.c on the modem link.         *)
(*                                                                         *)
(* The receive ring of the modem UART is seen as the queue link_rx of the  *)
(* bytes the DMA has stored and the driver has not read yet; the modem is  *)
(* kept below a full buffer of unread bytes (no overrun, see SpecRing).    *)
(* Text is a sequence of characters. AT commands are named by their text   *)
(* without the trailing CR LF.                                             *)

\* sizeof(handle->rx_buffer)
MQTT_RX_BUFFER_SIZE == 512
\* UART_DMA_RX_BUFFER_SIZE of the modem UART
LINK_RX_BUFFER_SIZE == 512
\* UART_DMA_TX_BUFFER_SIZE of the modem UART
LINK_TX_BUFFER_SIZE == 512
\* send_at_cmd gives up when the transmitter stays busy longer than this
TX_WAIT_MS == 1000
\* HAL_Delay(10) at the end of each wait_response iteration
POLL_MS == 10

\* polls of one wait that are followed one by one before the quiet rest of
\* the wait is taken in a single step
FinePolls == 1
\* number of exchanges the command-channel harness starts
MaxCalls == 2
\* most bytes the modem keeps queued for sending
MaxPending == 7

S_OK     == <<"O", "K">>
S_ERROR  == <<"E", "R", "R", "O", "R">>
S_PROMPT == <<">">>

\* strstr(hay, needle): the index of the first occurrence, 0 for NULL
StrStr(hay, needle) ==
    LET n == Len(needle)
        hits == {i \in 1..(Len(hay) - n + 1) : SubSeq(hay, i, i + n - 1) = needle}
    IN  IF hits = {} THEN 0
        ELSE CHOOSE i \in hits : \A j \in hits : i <= j

Contains(hay, needle) == StrStr(hay, needle) # 0

\* UART_DMA_Available on the modem link
LinkAvailable == Len(link_rx)

\* a read that leaves the last requested byte behind
LinkRead_DropsLast(len) ==
    LET available == LinkAvailable
        to_read   == IF len < available THEN len ELSE available
        n         == IF to_read > 0 THEN to_read - 1 ELSE 0
    IN  [data |-> SubSeq(link_rx, 1, n),
         rest |-> SubSeq(link_rx, n + 1, Len(link_rx))]

\* UART_DMA_Read on the modem link: the first min(len, available) bytes
LinkRead(len) ==
    LET available == LinkAvailable
        to_read   == IF len < available THEN len ELSE available
    IN  [data |-> SubSeq(link_rx, 1, to_read),
         rest |-> SubSeq(link_rx, to_read + 1, Len(link_rx))]

\* room for one byte more than the buffer can take with its terminator
RxSpace_NoTerminator(len) == MQTT_RX_BUFFER_SIZE - len

\* space = sizeof(handle->rx_buffer) - handle->rx_len - 1
RxSpace(len) == MQTT_RX_BUFFER_SIZE - len - 1

\* Response lines the bring-up looks for; each is one indivisible symbol.
S_CPIN_READY == <<"+CPIN: READY">>
S_CREG_HOME  == <<"+CREG: 0,1">>
S_CREG_ROAM  == <<"+CREG: 0,5">>
S_CGREG_HOME == <<"+CGREG: 0,1">>
S_CGREG_ROAM == <<"+CGREG: 0,5">>
S_STARTED    == <<"+CMQTTSTART: 0">>
S_CONNACK    == <<"+CMQTTCONNECT: 0,0">>
S_PUBACK     == <<"+CMQTTPUB: 0,0">>
S_SUBACK     == <<"+CMQTTSUB: 0,0">>
\* a subscribe acknowledgement with a non-zero result code
S_SUBREFUSED == <<"+CMQTTSUB: 0,1">>
\* a registration report that is neither home nor roaming
S_CREG_SEARCHING == <<"+CREG: 0,2">>
\* a broker acknowledgement with a non-zero result code
S_CONNREFUSED == <<"+CMQTTCONNECT: 0,1">>

\* What the modem may answer to a command it has received.
ModemReplies(c) ==
    CASE c = "AT" -> {<<>>, S_OK, S_ERROR, S_ERROR \o S_OK}
      [] c \in {"AT+CMQTTTOPIC", "AT+CMQTTPAYLOAD"} ->
            {<<>>, S_PROMPT, S_ERROR}
      [] c = "AT+CMQTTPUB" -> {S_OK, S_OK \o S_PUBACK, S_ERROR}
      [] c = "AT+CMQTTSUB" ->
            {<<>>, S_OK, S_OK \o S_SUBACK, S_OK \o S_SUBREFUSED, S_ERROR}
      [] c = "AT+CPIN?" -> {<<>>, S_CPIN_READY, S_ERROR}
      [] c = "AT+CREG?" -> {S_CREG_HOME, S_CREG_ROAM, S_CREG_SEARCHING}
      [] c = "AT+CGREG?" -> {<<>>, S_CGREG_HOME, S_CGREG_ROAM}
      [] c = "AT+CMQTTSTART" -> {S_OK, S_ERROR, S_STARTED}
      [] c = "AT+CMQTTCONNECT" -> {S_OK, S_CONNACK, S_CONNREFUSED}
      [] OTHER -> {<<>>, S_OK, S_ERROR}

\* The transfer completes: UART_DMA_TxCplt_Callback clears tx_busy. The
\* modem now has the whole command and decides what it will answer; the
\* answer comes after whatever the modem still had to send.  The transfer
\* is that of the running exchange when the exchange has handed its
\* command over and no transfer has completed since.
Link_TxCplt ==
    /\ tx_busy
    /\ tx_busy' = FALSE
    /\ \E resp \in ModemReplies(hw_tx) :
          /\ Len(modem_out) + Len(resp) <= MaxPending
          /\ modem_out' = modem_out \o resp
    /\ ans_from' = IF sent /\ cpc # "idle" /\ ans_from = -1
                   THEN Len(stream) + Len(modem_out)
                   ELSE ans_from
    /\ UNCHANGED <<chanVars, link_rx, hw_tx, bufVars, callVars, pc, sessVars,
                   sent, stream, polled, in_window>>

\* The modem sends its next k bytes and the DMA stores them.
Modem_Deliver(k) ==
    /\ k \in 1..Len(modem_out)
    /\ Len(link_rx) + k < LINK_RX_BUFFER_SIZE
    /\ link_rx' = link_rx \o SubSeq(modem_out, 1, k)
    /\ modem_out' = SubSeq(modem_out, k + 1, Len(modem_out))
    /\ stream' = IF cpc = "idle" THEN stream
                 ELSE stream \o SubSeq(modem_out, 1, k)
    /\ in_window' = IF /\ sent
                       /\ cpc \in {"delay", "wr_loop", "ret"}
                       /\ cpc = "delay" \/ el < timeout_ms
                       /\ Contains(stream', expected)
                    THEN TRUE ELSE in_window
    /\ UNCHANGED <<chanVars, tx_busy, hw_tx, bufVars, callVars, pc, sessVars, sent, polled,
                   ans_from>>

\* send_and_wait is entered: send_at_cmd clears the response buffer and
\* takes start = HAL_GetTick() for its wait on the transmitter.
SendAndWait_Enter(c, e, t) ==
    /\ cmd' = c
    /\ expected' = e
    /\ timeout_ms' = t
    /\ rx_buffer' = <<>>
    /\ rx_len' = 0
    /\ el' = 0
    /\ cres' = FALSE
    /\ cpc' = "tx_wait"
    /\ sent' = FALSE
    /\ stream' = link_rx
    /\ polled' = 0
    /\ in_window' = FALSE
    /\ ans_from' = -1

\* Tick values at which the wait on the transmitter looks at the clock.
SpinTimes(e) == {t \in {TX_WAIT_MS \div 2, TX_WAIT_MS, TX_WAIT_MS + 1} : t > e}

\* while (UART_DMA_IsTxBusy(..)): the transmitter is busy and the wait has
\* not lasted more than 1000 ms: the loop goes round while time passes.
SendAtCmd_Spin ==
    /\ cpc = "tx_wait"
    /\ tx_busy
    /\ ~(el > TX_WAIT_MS)
    /\ \E t \in SpinTimes(el) : el' = t
    /\ UNCHANGED <<chanVars, tx_busy, linkVars, bufVars, cpc, cmd, expected,
                   timeout_ms, cres, pc, sessVars, obsVars>>

\* if (HAL_GetTick() - start > 1000) return false;
SendAtCmd_GiveUp ==
    /\ cpc = "tx_wait"
    /\ tx_busy
    /\ el > TX_WAIT_MS
    /\ cres' = FALSE
    /\ cpc' = "ret"
    /\ UNCHANGED <<chanVars, tx_busy, linkVars, bufVars, cmd, expected,
                   timeout_ms, el, pc, sessVars, obsVars>>

\* UART_DMA_TransmitString with the transmitter free: the command is copied
\* to tx_buffer, tx_busy is set and the transfer started (HAL_OK: the HAL's
\* transmitter is ready whenever tx_busy is clear). Then HAL_Delay(50).
SendAtCmd_Transmit ==
    /\ cpc = "tx_wait"
    /\ ~tx_busy
    /\ tx_busy' = TRUE
    /\ hw_tx' = cmd
    /\ sent' = TRUE
    /\ cpc' = "delay"
    /\ UNCHANGED <<chanVars, link_rx, modem_out, bufVars, cmd, expected,
                   timeout_ms, el, cres, pc, sessVars, stream, polled, in_window,
                   ans_from>>

\* HAL_Delay(50) is over; wait_response takes start = HAL_GetTick().
SendAndWait_Delay ==
    /\ cpc = "delay"
    /\ cpc' = "wr_loop"
    /\ el' = 0
    /\ UNCHANGED <<chanVars, tx_busy, linkVars, bufVars, cmd, expected,
                   timeout_ms, cres, pc, sessVars, obsVars>>

\* Elapsed time at the next evaluation of the loop condition, after
\* HAL_Delay(10): either the next poll, or, when the polls in between find
\* nothing new, the last poll inside the timeout.
NextPollTimes(e, t) ==
    IF e + POLL_MS >= t - POLL_MS THEN {e + POLL_MS}
    ELSE IF e < FinePolls * POLL_MS THEN {e + POLL_MS, t - POLL_MS}
    ELSE {t - POLL_MS}

\* an iteration that gives up when it finds neither token
WaitResponse_Check_NoRetry(buf, e) ==
    IF StrStr(buf, e) # 0 THEN "match" ELSE "error"

\* the two strstr checks of one iteration, on the buffer after the read
WaitResponse_Check(buf, e) ==
    IF StrStr(buf, e) # 0 THEN "match"
    ELSE IF StrStr(buf, S_ERROR) # 0 THEN "error"
    ELSE "again"

\* One iteration of the wait_response loop, entered with
\* HAL_GetTick() - start < timeout_ms.
WaitResponse_Poll ==
    /\ cpc = "wr_loop"
    /\ el < timeout_ms
    /\ LET available == LinkAvailable
           space == RxSpace(rx_len)
           n == IF available > space THEN space ELSE available
           r == LinkRead(n)
           buf == IF available > 0 THEN rx_buffer \o r.data ELSE rx_buffer
           verdict == WaitResponse_Check(buf, expected)
       IN  /\ rx_buffer' = buf
           /\ rx_len' = Len(buf)
           /\ link_rx' = IF available > 0 THEN r.rest ELSE link_rx
           /\ polled' = Len(stream)
           /\ CASE verdict = "match" ->
                     /\ cres' = TRUE
                     /\ cpc' = "ret"
                     /\ el' = el
                [] verdict = "error" ->
                     /\ cres' = FALSE
                     /\ cpc' = "ret"
                     /\ el' = el
                [] OTHER ->
                     /\ cres' = cres
                     /\ cpc' = "wr_loop"
                     /\ \E t \in NextPollTimes(el, timeout_ms) : el' = t
    /\ UNCHANGED <<chanVars, tx_busy, hw_tx, modem_out, cmd, expected,
                   timeout_ms, pc, sessVars, sent, stream, in_window, ans_from>>

\* The loop condition fails: return false.
WaitResponse_Timeout ==
    /\ cpc = "wr_loop"
    /\ ~(el < timeout_ms)
    /\ cres' = FALSE
    /\ cpc' = "ret"
    /\ UNCHANGED <<chanVars, tx_busy, linkVars, bufVars, cmd, expected,
                   timeout_ms, el, pc, sessVars, obsVars>>

\* The steps of an exchange in progress.
ExchangeStep ==
    \/ SendAtCmd_Spin
    \/ SendAtCmd_GiveUp
    \/ SendAtCmd_Transmit
    \/ SendAndWait_Delay
    \/ WaitResponse_Poll
    \/ WaitResponse_Timeout

\* What the hardware and the modem do on their own.
LinkStep ==
    \/ Link_TxCplt
    \/ \E k \in 1..MaxPending : Modem_Deliver(k)

-----------------------------------------------------------------------------
(* SpecCmd: a caller that runs send_and_wait exchanges one after another   *)
(* on a link whose modem answers, late or not at all.                      *)

CmdCalls == {[c |-> "AT", e |-> S_OK, t |-> 2000],
             [c |-> "AT+CMQTTTOPIC", e |-> S_PROMPT, t |-> 5000]}

InitCmd ==
    /\ InitChannel
    /\ InitLink
    /\ InitCall
    /\ InitSession
    /\ use_ssl = FALSE
    /\ error_step = 0
    /\ pc = 0

\* the caller starts its next exchange
Cmd_Call ==
    /\ pc \in 0..(MaxCalls - 1)
    /\ cpc = "idle"
    /\ \E x \in CmdCalls : SendAndWait_Enter(x.c, x.e, x.t)
    /\ pc' = pc + 1
    /\ UNCHANGED <<chanVars, tx_busy, linkVars, sessVars>>

\* the caller takes the result
Cmd_Return ==
    /\ cpc = "ret"
    /\ cpc' = "idle"
    /\ UNCHANGED <<chanVars, tx_busy, linkVars, bufVars, cmd, expected,
                   timeout_ms, el, cres, pc, sessVars, obsVars>>

NextCmd ==
    \/ Cmd_Call
    \/ Cmd_Return
    \/ ExchangeStep
    \/ LinkStep

SpecCmd == InitCmd /\ [][NextCmd]_vars

\* the exchange has returned and its caller has not yet taken the result
Returned == cpc = "ret"

\* the bytes the exchange has read hold expected inside the modem's answer
\* to the command of the exchange
AnswerRead ==
    /\ ans_from >= 0
    /\ Contains(SubSeq(stream, ans_from + 1, polled), expected)

\* the part of the stream that had been delivered at the last poll
PolledStream == SubSeq(stream, 1, polled)

\* "ERROR" occurs in s at an earlier position than e
ErrorBefore(s, e) ==
    /\ StrStr(s, e) # 0
    /\ StrStr(s, S_ERROR) # 0
    /\ StrStr(s, S_ERROR) < StrStr(s, e)

(* C4 as stated: if, after the command was transmitted, the response       *)
(* stream delivers the expected substring at any time within the timeout   *)
(* window, send_and_wait returns success, before the timeout has elapsed.  *)
C4_ExpectedInWindowSucceeds ==
    (Returned /\ sent /\ in_window) => (cres /\ el < timeout_ms)

(* C4 amended: if the response stream delivered by the time of one of      *)
(* wait_response's polls contains the expected substring with no "ERROR"   *)
(* before it, send_and_wait returns success, less than timeout_ms after    *)
(* wait_response began; and every success is returned before that time.    *)
C4_ExpectedPolledSucceeds ==
    Returned =>
        /\ (Contains(PolledStream, expected)
              /\ ~ErrorBefore(PolledStream, expected)) => cres
        /\ cres => el < timeout_ms

\* success at the last poll inside the timeout, on a response that arrived
\* in pieces
C4_Witness ==
    /\ Returned
    /\ cres
    /\ sent
    /\ el = timeout_ms - POLL_MS
    /\ stream = expected
    /\ Len(stream) >= 2
    /\ rx_buffer = stream

(* C32: whenever send_and_wait returns success, the expected substring was  *)
(* read from what the modem sent after the command of that exchange had    *)
(* been transmitted; bytes left unread in the UART ring by an earlier       *)
(* exchange are never counted as the response to a later command.          *)
C32_SuccessAnswersThisCommand ==
    (Returned /\ cres) => AnswerRead

(* C5: if the response stream of an exchange contains "ERROR" at an        *)
(* earlier position than the expected substring, send_and_wait returns     *)
(* failure, however the bytes are split across the polls.                  *)
C5_ErrorBeforeExpectedFails ==
    (Returned /\ ErrorBefore(stream, expected)) => ~cres

(* C6: if the response stream of an exchange contains neither the expected *)
(* substring nor "ERROR", send_and_wait returns failure, not before        *)
(* timeout_ms has elapsed since the command was sent; and every call of    *)
(* send_and_wait eventually returns.                                       *)
C6_NeitherFailsAfterTimeout ==
    /\ [](( /\ Returned
            /\ ~Contains(stream, expected)
            /\ ~Contains(stream, S_ERROR))
          => (~cres /\ (sent => el >= timeout_ms)))
    /\ ((cpc = "tx_wait") ~> Returned)

\* a timed-out exchange whose stream held bytes, none of them a token
C6_Witness ==
    /\ Returned
    /\ sent
    /\ ~cres
    /\ el = timeout_ms
    /\ Len(rx_buffer) > 0
    /\ ~Contains(stream, expected)
    /\ ~Contains(stream, S_ERROR)

\* The program runs: an exchange in progress takes its next step, with
\* the tick advancing under its waits.
SpecCmdFair == SpecCmd /\ WF_vars(ExchangeStep)

-----------------------------------------------------------------------------
(* The session: A7600_MQTT_Connect as a sequence of send_and_wait          *)
(* exchanges, each one run by the command channel above.                   *)

MQTT_RESPONSE_TIMEOUT == 10000
MQTT_CMD_TIMEOUT == 5000
\* sizeof(handle->last_response) - 1
LAST_RESPONSE_MAX == 127

Max(a, b) == IF a > b THEN a ELSE b

Phases == 1..10

\* The exchanges of A7600_MQTT_Connect: command, expected substring,
\* timeout, the phase they belong to and what a failure means.
\*   retry    - last exchange of a `while (retry-- > 0)` round
\*   first    - left operand of `||` in such a round
\*   fatal    - failure aborts the bring-up
\*   start    - failure aborts unless the buffer holds "+CMQTTSTART: 0"
\*   optional - result ignored
ConnectSteps ==
    [at          |-> [c |-> "AT", e |-> S_OK, t |-> 2000,
                      phase |-> 1, kind |-> "retry"],
     cpin        |-> [c |-> "AT+CPIN?", e |-> S_CPIN_READY,
                      t |-> MQTT_CMD_TIMEOUT, phase |-> 2, kind |-> "fatal"],
     creg1       |-> [c |-> "AT+CREG?", e |-> S_CREG_HOME, t |-> 2000,
                      phase |-> 3, kind |-> "first"],
     creg5       |-> [c |-> "AT+CREG?", e |-> S_CREG_ROAM, t |-> 2000,
                      phase |-> 3, kind |-> "retry"],
     cgreg1      |-> [c |-> "AT+CGREG?", e |-> S_CGREG_HOME, t |-> 2000,
                      phase |-> 4, kind |-> "first"],
     cgreg5      |-> [c |-> "AT+CGREG?", e |-> S_CGREG_ROAM, t |-> 2000,
                      phase |-> 4, kind |-> "retry"],
     cgact0      |-> [c |-> "AT+CGACT=0,1", e |-> S_OK, t |-> 5000,
                      phase |-> 5, kind |-> "optional"],
     cgdcont     |-> [c |-> "AT+CGDCONT", e |-> S_OK, t |-> 2000,
                      phase |-> 5, kind |-> "optional"],
     cgact1      |-> [c |-> "AT+CGACT=1,1", e |-> S_OK, t |-> 10000,
                      phase |-> 5, kind |-> "fatal"],
     csq         |-> [c |-> "AT+CSQ", e |-> S_OK, t |-> 2000,
                      phase |-> 6, kind |-> "optional"],
     disc        |-> [c |-> "AT+CMQTTDISC", e |-> S_OK, t |-> 2000,
                      phase |-> 7, kind |-> "optional"],
     rel         |-> [c |-> "AT+CMQTTREL", e |-> S_OK, t |-> 2000,
                      phase |-> 7, kind |-> "optional"],
     stop        |-> [c |-> "AT+CMQTTSTOP", e |-> S_OK, t |-> 2000,
                      phase |-> 7, kind |-> "optional"],
     start       |-> [c |-> "AT+CMQTTSTART", e |-> S_OK,
                      t |-> MQTT_CMD_TIMEOUT, phase |-> 7, kind |-> "start"],
     accq        |-> [c |-> "AT+CMQTTACCQ", e |-> S_OK,
                      t |-> MQTT_CMD_TIMEOUT, phase |-> 8, kind |-> "fatal"],
     ssl_version |-> [c |-> "AT+CSSLCFG=sslversion", e |-> S_OK, t |-> 2000,
                      phase |-> 9, kind |-> "optional"],
     ssl_auth    |-> [c |-> "AT+CSSLCFG=authmode", e |-> S_OK, t |-> 2000,
                      phase |-> 9, kind |-> "optional"],
     ssl_sni     |-> [c |-> "AT+CSSLCFG=enableSNI", e |-> S_OK, t |-> 2000,
                      phase |-> 9, kind |-> "optional"],
     ssl_time    |-> [c |-> "AT+CSSLCFG=ignorelocaltime", e |-> S_OK,
                      t |-> 2000, phase |-> 9, kind |-> "optional"],
     ssl_bind    |-> [c |-> "AT+CMQTTSSLCFG", e |-> S_OK,
                      t |-> MQTT_CMD_TIMEOUT, phase |-> 9, kind |-> "fatal"],
     connect     |-> [c |-> "AT+CMQTTCONNECT", e |-> S_CONNACK,
                      t |-> MQTT_RESPONSE_TIMEOUT, phase |-> 10,
                      kind |-> "fatal"]]

ConnectPcs == DOMAIN ConnectSteps

\* a bring-up that configures TLS whatever the configuration asks for
Successor_AlwaysSsl(step, ssl) ==
    CASE step = "at" -> "cpin"
      [] step = "cpin" -> "creg1"
      [] step \in {"creg1", "creg5"} -> "cgreg1"
      [] step \in {"cgreg1", "cgreg5"} -> "cgact0"
      [] step = "cgact0" -> "cgdcont"
      [] step = "cgdcont" -> "cgact1"
      [] step = "cgact1" -> "csq"
      [] step = "csq" -> "disc"
      [] step = "disc" -> "rel"
      [] step = "rel" -> "stop"
      [] step = "stop" -> "start"
      [] step = "start" -> "accq"
      [] step = "accq" -> "ssl_version"
      [] step = "ssl_version" -> "ssl_auth"
      [] step = "ssl_auth" -> "ssl_sni"
      [] step = "ssl_sni" -> "ssl_time"
      [] step = "ssl_time" -> "ssl_bind"
      [] step = "ssl_bind" -> "connect"
      [] step = "connect" -> "done"

\* the exchange that follows a step whose outcome lets the bring-up go on
Successor(step, ssl) ==
    CASE step = "at" -> "cpin"
      [] step = "cpin" -> "creg1"
      [] step \in {"creg1", "creg5"} -> "cgreg1"
      [] step \in {"cgreg1", "cgreg5"} -> "cgact0"
      [] step = "cgact0" -> "cgdcont"
      [] step = "cgdcont" -> "cgact1"
      [] step = "cgact1" -> "csq"
      [] step = "csq" -> "disc"
      [] step = "disc" -> "rel"
      [] step = "rel" -> "stop"
      [] step = "stop" -> "start"
      [] step = "start" -> "accq"
      [] step = "accq" -> IF ssl THEN "ssl_version" ELSE "connect"
      [] step = "ssl_version" -> "ssl_auth"
      [] step = "ssl_auth" -> "ssl_sni"
      [] step = "ssl_sni" -> "ssl_time"
      [] step = "ssl_time" -> "ssl_bind"
      [] step = "ssl_bind" -> "connect"
      [] step = "connect" -> "done"

\* right operand of `||` after the left one failed
Alternative(step) == IF step = "creg1" THEN "creg5" ELSE "cgreg5"

\* first exchange of the round the step belongs to
LoopHead(step) ==
    CASE step = "creg5" -> "creg1"
      [] step = "cgreg5" -> "cgreg1"
      [] OTHER -> step

\* a bring-up that stops at the first exchange that fails, whatever it is
Connect_Verdict_NoOptional(step, ok, buf, r) ==
    IF ok THEN "next" ELSE "abort"

\* a bring-up that goes on after a failed single-attempt exchange
Connect_Verdict_IgnoreFatal(step, ok, buf, r) ==
    LET k == ConnectSteps[step].kind
    IN  CASE k \in {"optional", "fatal", "start"} -> "next"
          [] k = "first" -> IF ok THEN "next" ELSE "alt"
          [] k = "retry" -> IF ok THEN "next"
                            ELSE IF r > 0 THEN "again" ELSE "abort"

\* a bring-up that takes every failed start exchange for a failure
Connect_Verdict_StartFatal(step, ok, buf, r) ==
    LET k == ConnectSteps[step].kind
    IN  CASE k = "optional" -> "next"
          [] k \in {"fatal", "start"} -> IF ok THEN "next" ELSE "abort"
          [] k = "first" -> IF ok THEN "next" ELSE "alt"
          [] k = "retry" -> IF ok THEN "next"
                            ELSE IF r > 0 THEN "again" ELSE "abort"

\* What A7600_MQTT_Connect does with the result ok of the exchange of
\* step, the response buffer being buf and the local retry being r.
Connect_Verdict(step, ok, buf, r) ==
    LET k == ConnectSteps[step].kind
    IN  CASE k = "optional" -> "next"
          [] k = "fatal" -> IF ok THEN "next" ELSE "abort"
          [] k = "start" -> IF ok \/ Contains(buf, S_STARTED)
                            THEN "next" ELSE "abort"
          [] k = "first" -> IF ok THEN "next" ELSE "alt"
          [] k = "retry" -> IF ok THEN "next"
                            ELSE IF r > 0 THEN "again" ELSE "abort"

\* loops that allow one round more
RetryInit_OneMore(step) ==
    CASE step = "at" -> 4
      [] step \in {"creg1", "cgreg1"} -> 31
      [] OTHER -> 0

\* `retry = N` in front of a retry loop
RetryInit(step) ==
    CASE step = "at" -> 3
      [] step \in {"creg1", "cgreg1"} -> 30
      [] OTHER -> 0

\* handle->state = ... in front of an exchange
StateOnEntry(step, st) ==
    CASE step = "accq" -> "Acquiring"
      [] step = "ssl_version" -> "SslConfig"
      [] step = "connect" -> "Connecting"
      [] OTHER -> st

\* strncpy(handle->last_response, rx_buffer, sizeof(last_response) - 1)
Strncpy(buf) == SubSeq(buf, 1, Min(Len(buf), LAST_RESPONSE_MAX))

\* the exchange whose result decides whether the phase is satisfied
Decides(step) == ConnectSteps[step].kind # "optional" \/ step = "csq"

\* how the exchange of a step ended, from its result and the buffer
Outcome(step, ok, buf) ==
    IF ok THEN "ok"
    ELSE IF step = "start" /\ Contains(buf, S_STARTED) THEN "already"
    ELSE "fail"

\* record the exchange that has just returned
ObserveExchange ==
    /\ phase_res' = IF Decides(pc)
                    THEN [phase_res EXCEPT ![ConnectSteps[pc].phase] =
                                              Outcome(pc, cres, rx_buffer)]
                    ELSE phase_res
    /\ max_tx' = IF sent THEN Max(max_tx, ConnectSteps[pc].phase) ELSE max_tx

\* number of session operations called in one behaviour
MaxOps == 2

SendAndWait_Step(step) ==
    SendAndWait_Enter(ConnectSteps[step].c, ConnectSteps[step].e,
                      ConnectSteps[step].t)

\* A7600_MQTT_Connect is called: error info cleared, state Starting, the
\* first round of the phase 1 loop begins.
A7600_MQTT_Connect_Call ==
    /\ pc = "idle"
    /\ cpc = "idle"
    /\ n_calls < MaxOps
    /\ n_calls' = n_calls + 1
    /\ last_api' = "Connect"
    /\ result' = "none"
    /\ error_step' = 0
    /\ last_response' = <<>>
    /\ state' = "Starting"
    /\ retry' = RetryInit("at") - 1
    /\ pc' = "at"
    /\ SendAndWait_Step("at")
    /\ phase_res' = [n \in Phases |-> "none"]
    /\ max_tx' = 0
    /\ UNCHANGED <<chanVars, tx_busy, linkVars, connected, use_ssl, procVars, bridgeVars,
                   tx_log, pub_len>>

\* The exchange failed and the phase has another one to try: the right
\* operand of `||`, or the next round of the loop after HAL_Delay(1000).
Connect_Again ==
    /\ pc \in ConnectPcs
    /\ cpc = "ret"
    /\ LET v == Connect_Verdict(pc, cres, rx_buffer, retry)
       IN  /\ v \in {"alt", "again"}
           /\ pc' = IF v = "alt" THEN Alternative(pc) ELSE LoopHead(pc)
           /\ retry' = IF v = "alt" THEN retry ELSE retry - 1
    /\ SendAndWait_Step(pc')
    /\ ObserveExchange
    /\ UNCHANGED <<chanVars, tx_busy, linkVars, state, connected, error_step,
                   last_response, use_ssl, procVars, bridgeVars, result, last_api, n_calls,
                   tx_log, pub_len>>

\* The bring-up goes on with the next exchange.
Connect_Advance ==
    /\ pc \in ConnectPcs
    /\ cpc = "ret"
    /\ Connect_Verdict(pc, cres, rx_buffer, retry) = "next"
    /\ Successor(pc, use_ssl) # "done"
    /\ pc' = Successor(pc, use_ssl)
    /\ retry' = IF RetryInit(pc') > 0 THEN RetryInit(pc') - 1 ELSE retry
    /\ state' = StateOnEntry(pc', state)
    /\ SendAndWait_Step(pc')
    /\ ObserveExchange
    /\ UNCHANGED <<chanVars, tx_busy, linkVars, connected, error_step,
                   last_response, use_ssl, procVars, bridgeVars, result, last_api, n_calls,
                   tx_log, pub_len>>

\* The phase failed: error_step, the snapshot, state Error, MQTT_ERROR.
Connect_Abort ==
    /\ pc \in ConnectPcs
    /\ cpc = "ret"
    /\ Connect_Verdict(pc, cres, rx_buffer, retry) = "abort"
    /\ error_step' = ConnectSteps[pc].phase
    /\ last_response' = Strncpy(rx_buffer)
    /\ state' = "Error"
    /\ result' = "MQTT_ERROR"
    /\ retry' = IF ConnectSteps[pc].kind = "retry" THEN retry - 1 ELSE retry
    /\ pc' = "idle"
    /\ cpc' = "idle"
    /\ ObserveExchange
    /\ UNCHANGED <<chanVars, tx_busy, linkVars, bufVars, cmd, expected,
                   timeout_ms, el, cres, obsVars, connected, use_ssl, procVars, bridgeVars,
                   last_api, n_calls, tx_log, pub_len>>

\* The broker acknowledged: state Connected, connected, MQTT_OK.
Connect_Done ==
    /\ pc \in ConnectPcs
    /\ cpc = "ret"
    /\ Connect_Verdict(pc, cres, rx_buffer, retry) = "next"
    /\ Successor(pc, use_ssl) = "done"
    /\ state' = "Connected"
    /\ connected' = TRUE
    /\ result' = "MQTT_OK"
    /\ pc' = "idle"
    /\ cpc' = "idle"
    /\ ObserveExchange
    /\ UNCHANGED <<chanVars, tx_busy, linkVars, bufVars, cmd, expected,
                   timeout_ms, el, cres, obsVars, error_step, last_response,
                   use_ssl, procVars, bridgeVars, retry, last_api, n_calls, tx_log, pub_len>>

-----------------------------------------------------------------------------
(* send_and_wait as one step, for the operations that run many exchanges.  *)
(* What an exchange leaves behind is fixed by the bytes it read: the       *)
(* buffer only changes in a poll, and every poll is followed by the tests  *)
(* of wait_response, so the result is true exactly when the buffer holds   *)
(* the expected substring; a command that could not be sent leaves the     *)
(* buffer empty.  SendAndWait_Contract states this of the stepwise         *)
(* exchange.                                                               *)

SendAndWait_Contract ==
    Returned => /\ cres = Contains(rx_buffer, expected)
                /\ ~sent => rx_buffer = <<>>
                /\ rx_len = Len(rx_buffer)

\* Texts an exchange may have read when it returns: nothing, an answer of
\* the modem to the command, or the end of an answer to an earlier one.
ResponseTexts(c) == ModemReplies(c) \cup {<<>>, S_OK, S_ERROR}

\* The exchange entered last runs to its return.  A free transmitter takes
\* the command; a busy one may become free within TX_WAIT_MS or not.
SendAndWait_Run ==
    /\ cpc = "tx_wait"
    /\ \E tx_ok \in (IF tx_busy THEN BOOLEAN ELSE {TRUE}),
          buf \in ResponseTexts(cmd), busy \in BOOLEAN :
          /\ sent' = tx_ok
          /\ hw_tx' = IF tx_ok THEN cmd ELSE hw_tx
          /\ tx_busy' = IF tx_ok THEN busy ELSE TRUE
          /\ rx_buffer' = IF tx_ok THEN buf ELSE <<>>
    /\ rx_len' = Len(rx_buffer')
    /\ cres' = Contains(rx_buffer', expected)
    /\ stream' = rx_buffer'
    /\ polled' = Len(rx_buffer')
    /\ cpc' = "ret"
    /\ UNCHANGED <<chanVars, link_rx, modem_out, cmd, expected, timeout_ms,
                   el, in_window, ans_from, pc, sessVars>>

-----------------------------------------------------------------------------
(* SpecConnect: bring-ups against a modem that may answer each command as  *)
(* wanted, with an error, with something else, late or not at all.         *)

\* A7600_MQTT_Init leaves error_step as it finds it
InitConnect ==
    /\ InitChannel
    /\ InitLink
    /\ InitCall
    /\ InitSession
    /\ use_ssl \in BOOLEAN
    /\ error_step \in {0, 7}
    /\ pc = "idle"

NextConnect ==
    \/ A7600_MQTT_Connect_Call
    \/ Connect_Again
    \/ Connect_Advance
    \/ Connect_Abort
    \/ Connect_Done
    \/ SendAndWait_Run

SpecConnect == InitConnect /\ [][NextConnect]_vars

\* A7600_MQTT_Connect has returned
ConnectReturned == pc = "idle" /\ last_api = "Connect" /\ result # "none"

\* phases whose deciding exchange ended in failure: for a phase with
\* several attempts this is the last attempt, the earlier ones having
\* failed as well
FailedPhases == {n \in Phases : phase_res[n] \in {"fail", "already"}}

\* phases of which the failure is fatal: every phase but 6; in phase 7 a
\* failed start with "+CMQTTSTART: 0" in the response counts as started
AbortedPhases == {n \in Phases \ {6} : phase_res[n] = "fail"}

\* the phases the configuration asks for
RequiredPhases == IF use_ssl THEN Phases ELSE Phases \ {9}

(* C7: if the modem's responses satisfy every bring-up phase in order (no *)
(* phase is left with its deciding exchange failed), A7600_MQTT_Connect    *)
(* returns MQTT_OK with state Connected, connected true and error_step 0.  *)
C7_SatisfiedPhasesConnect ==
    (ConnectReturned /\ FailedPhases = {}) =>
        /\ result = "MQTT_OK"
        /\ state = "Connected"
        /\ connected
        /\ error_step = 0
        /\ \A n \in RequiredPhases : phase_res[n] = "ok"

\* a second bring-up, with TLS, every phase satisfied
C7_Witness ==
    /\ ConnectReturned
    /\ n_calls = 2
    /\ use_ssl
    /\ \A n \in Phases : phase_res[n] = "ok"
    /\ result = "MQTT_OK"

Rounds(step) == RetryInit(LoopHead(step)) - retry

(* C22: phase 1 of A7600_MQTT_Connect makes at most 3 attempts of "AT";    *)
(* the bring-up goes on to phase 2 as soon as an attempt succeeds, the     *)
(* third included; and it fails, with error_step 1 and state Error,        *)
(* exactly when all 3 attempts have failed.                                *)
C22_LivenessThreeAttempts ==
    /\ [](pc = "at" => Rounds("at") \in 1..3)
    /\ [][(pc = "at" /\ cpc = "ret" /\ pc' = "at") =>
             (~cres /\ Rounds("at")' = Rounds("at") + 1)]_vars
    /\ [][(pc = "at" /\ cpc = "ret" /\ cres) =>
             (pc' = "cpin" /\ cmd' = "AT+CPIN?" /\ error_step' = 0)]_vars
    /\ [][(pc = "at" /\ cpc = "ret" /\ ~cres /\ Rounds("at") = 3) =>
             (/\ pc' = "idle"
              /\ result' = "MQTT_ERROR"
              /\ error_step' = 1
              /\ state' = "Error")]_vars
    /\ [](ConnectReturned =>
             ((error_step = 1) <=> (phase_res[1] = "fail" /\ retry = -1)))

\* the third attempt succeeded and the bring-up is in phase 2
C22_Witness ==
    /\ pc = "cpin"
    /\ retry = 0
    /\ phase_res[1] = "ok"
    /\ state = "Starting"

\* the exchanges of the two registration phases
RegistrationSteps == {"creg1", "creg5", "cgreg1", "cgreg5"}

\* registration queries the phase of step has made so far, the current one
\* included: a round is left unfinished only by a success, so every
\* earlier round made both of its queries
Queries(step) ==
    2 * (Rounds(step) - 1) + (IF ConnectSteps[step].kind = "first" THEN 1 ELSE 2)

\* the response holds the home or the roaming code of the phase of step
Registered(step, buf) ==
    IF ConnectSteps[step].phase = 3
    THEN Contains(buf, S_CREG_HOME) \/ Contains(buf, S_CREG_ROAM)
    ELSE Contains(buf, S_CGREG_HOME) \/ Contains(buf, S_CGREG_ROAM)

(* C23: phases 3 and 4 of A7600_MQTT_Connect each make at most 30          *)
(* registration queries; the phase succeeds as soon as the response to a   *)
(* query holds the home or the roaming code; and the phase fails, with     *)
(* error_step 3 or 4, only after 30 queries without either code.           *)
C23_RegistrationThirtyQueries ==
    /\ [](pc \in RegistrationSteps => Queries(pc) <= 30)
    /\ [][(pc \in RegistrationSteps /\ cpc = "ret"
              /\ Registered(pc, rx_buffer)) =>
             pc' = Successor(pc, use_ssl)]_vars
    /\ [][(pc \in RegistrationSteps /\ pc' = "idle") =>
             (/\ Queries(pc) = 30
              /\ ~Registered(pc, rx_buffer)
              /\ error_step' = ConnectSteps[pc].phase)]_vars

\* the exchanges of phases 5 and 6 whose result nobody tests
InformationalSteps == {"cgact0", "cgdcont", "csq"}

(* C24: whatever the PDP deactivate, access-point-name and signal-quality  *)
(* exchanges return, the bring-up goes on to the next exchange with        *)
(* error_step and state untouched; in phase 5 only a failed PDP activate   *)
(* exchange aborts, with error_step 5, and no bring-up ends with           *)
(* error_step 6.                                                           *)
C24_InformationalExchangesIgnored ==
    /\ [][(pc \in InformationalSteps /\ cpc = "ret") =>
             (/\ pc' = Successor(pc, use_ssl)
              /\ cmd' = ConnectSteps[pc'].c
              /\ UNCHANGED <<error_step, state, result, last_response>>)]_vars
    /\ [][(pc = "cgact1" /\ cpc = "ret") =>
             IF cres
             THEN pc' = "csq" /\ UNCHANGED <<error_step, state>>
             ELSE /\ pc' = "idle"
                  /\ result' = "MQTT_ERROR"
                  /\ error_step' = 5
                  /\ state' = "Error"]_vars
    /\ [](ConnectReturned =>
             /\ error_step # 6
             /\ (error_step = 5) <=> (phase_res[5] = "fail"))

\* a bring-up that succeeded although the signal-quality exchange failed
C24_Witness ==
    /\ ConnectReturned
    /\ result = "MQTT_OK"
    /\ phase_res[6] = "fail"
    /\ phase_res[5] = "ok"

\* the stale-session teardown exchanges of phase 7
StaleTeardownSteps == {"disc", "rel", "stop"}

SslConfigSteps == {"ssl_version", "ssl_auth", "ssl_sni", "ssl_time"}
SslSteps == SslConfigSteps \cup {"ssl_bind"}
SslCommands == {ConnectSteps[x].c : x \in SslSteps}

(* C26: with use_ssl false A7600_MQTT_Connect starts no TLS configuration  *)
(* or bind exchange, hands no such command to the transmitter, and state   *)
(* is never SslConfig; with use_ssl true the bring-up goes on whatever the *)
(* four TLS configuration exchanges return, and a failed bind exchange,    *)
(* and no other exchange of phase 9, aborts it with error_step 9.          *)
C26_TlsOnlyWhenConfigured ==
    /\ [](~use_ssl =>
             /\ state # "SslConfig"
             /\ pc \notin SslSteps
             /\ cmd \notin SslCommands
             /\ hw_tx \notin SslCommands
             /\ error_step # 9)
    /\ [][(pc \in SslConfigSteps /\ cpc = "ret") =>
             (/\ pc' = Successor(pc, use_ssl)
              /\ cmd' = ConnectSteps[pc'].c
              /\ state' = "SslConfig"
              /\ UNCHANGED <<error_step, result, last_response>>)]_vars
    /\ [][(pc = "ssl_bind" /\ cpc = "ret") =>
             IF cres
             THEN /\ pc' = "connect"
                  /\ state' = "Connecting"
                  /\ UNCHANGED error_step
             ELSE /\ pc' = "idle"
                  /\ result' = "MQTT_ERROR"
                  /\ error_step' = 9
                  /\ state' = "Error"]_vars
    /\ [](ConnectReturned =>
             ((error_step = 9) <=> (phase_res[9] = "fail")))

\* a bring-up with TLS that the failed bind exchange aborted
C26_Witness ==
    /\ ConnectReturned
    /\ use_ssl
    /\ error_step = 9
    /\ state = "Error"
    /\ phase_res[8] = "ok"
    /\ max_tx = 9

(* C27: phase 10 of A7600_MQTT_Connect succeeds only if the response       *)
(* holds "+CMQTTCONNECT: 0,0"; a response that is a bare "OK", or an       *)
(* acknowledgement with a non-zero result code, yields MQTT_ERROR with     *)
(* error_step 10, state Error and connected false.                         *)
C27_ConnectNeedsAcknowledgement ==
    /\ [][(pc = "connect" /\ cpc = "ret" /\ result' = "MQTT_OK") =>
             Contains(rx_buffer, S_CONNACK)]_vars
    /\ [][(pc = "connect" /\ cpc = "ret"
              /\ rx_buffer \in {S_OK, S_CONNREFUSED}) =>
             (/\ pc' = "idle"
              /\ result' = "MQTT_ERROR"
              /\ error_step' = 10
              /\ state' = "Error"
              /\ ~connected')]_vars

(* C33: at every return of a public session operation, for any sequence   *)
(* of calls, connected is true if and only if state is Connected; in       *)
(* particular state Error implies connected false.                         *)
C33_ConnectedIffStateConnected ==
    (pc = "idle" /\ cpc = "idle" /\ last_api # "none") =>
        (connected <=> state = "Connected")

-----------------------------------------------------------------------------
(* A7600_MQTT_Disconnect: three exchanges, results ignored.                *)

DisconnectSteps ==
    [disc_disc |-> [c |-> "AT+CMQTTDISC", e |-> S_OK, t |-> MQTT_CMD_TIMEOUT],
     disc_rel  |-> [c |-> "AT+CMQTTREL", e |-> S_OK, t |-> MQTT_CMD_TIMEOUT],
     disc_stop |-> [c |-> "AT+CMQTTSTOP", e |-> S_OK, t |-> MQTT_CMD_TIMEOUT]]

DisconnectPcs == DOMAIN DisconnectSteps

\* a teardown that stops at the first exchange that fails
Disconnect_Successor_StopOnFailure(step, ok) ==
    IF ~ok THEN "done"
    ELSE CASE step = "disc_disc" -> "disc_rel"
           [] step = "disc_rel" -> "disc_stop"
           [] step = "disc_stop" -> "done"

\* the exchange that follows step, whatever its result ok was
Disconnect_Successor(step, ok) ==
    CASE step = "disc_disc" -> "disc_rel"
      [] step = "disc_rel" -> "disc_stop"
      [] step = "disc_stop" -> "done"

\* record the exchange that has just returned
LogExchange ==
    tx_log' = Append(tx_log, [c |-> cmd, sent |-> sent, ok |-> cres,
                              answered |-> AnswerRead])

\* A7600_MQTT_Disconnect is called: state Disconnecting, first exchange.
A7600_MQTT_Disconnect_Call ==
    /\ pc = "idle"
    /\ cpc = "idle"
    /\ last_api = "none"
    /\ n_calls' = n_calls + 1
    /\ last_api' = "Disconnect"
    /\ result' = "none"
    /\ state' = "Disconnecting"
    /\ pc' = "disc_disc"
    /\ SendAndWait_Enter(DisconnectSteps["disc_disc"].c,
                         DisconnectSteps["disc_disc"].e,
                         DisconnectSteps["disc_disc"].t)
    /\ tx_log' = <<>>
    /\ UNCHANGED <<chanVars, tx_busy, linkVars, connected, error_step,
                   last_response, use_ssl, procVars, bridgeVars, retry, phase_res, max_tx, pub_len>>

\* An exchange returned and another follows, after HAL_Delay(500).
Disconnect_Next ==
    /\ pc \in DisconnectPcs
    /\ cpc = "ret"
    /\ Disconnect_Successor(pc, cres) # "done"
    /\ pc' = Disconnect_Successor(pc, cres)
    /\ SendAndWait_Enter(DisconnectSteps[pc'].c, DisconnectSteps[pc'].e,
                         DisconnectSteps[pc'].t)
    /\ LogExchange
    /\ UNCHANGED <<chanVars, tx_busy, linkVars, state, connected, error_step,
                   last_response, use_ssl, procVars, bridgeVars, retry, result, last_api, n_calls,
                   phase_res, max_tx, pub_len>>

\* The last exchange returned: state Idle, connected false, MQTT_OK.
Disconnect_Done ==
    /\ pc \in DisconnectPcs
    /\ cpc = "ret"
    /\ Disconnect_Successor(pc, cres) = "done"
    /\ state' = "Idle"
    /\ connected' = FALSE
    /\ result' = "MQTT_OK"
    /\ pc' = "idle"
    /\ cpc' = "idle"
    /\ LogExchange
    /\ UNCHANGED <<chanVars, tx_busy, linkVars, bufVars, cmd, expected,
                   timeout_ms, el, cres, obsVars, error_step, last_response,
                   use_ssl, procVars, bridgeVars, retry, last_api, n_calls, phase_res, max_tx,
                   pub_len>>

-----------------------------------------------------------------------------
(* SpecDisc: a teardown from every state a session rests in, against a     *)
(* modem that answers OK, ERROR or nothing, early or late.                 *)

\* state, connected and error_step between two operations: after
\* A7600_MQTT_Init, after a bring-up that succeeded, after one that failed,
\* and after one that failed on a session that was connected.
RestingSessions ==
    {[state |-> "Idle", connected |-> FALSE, error_step |-> 0],
     [state |-> "Connected", connected |-> TRUE, error_step |-> 0],
     [state |-> "Error", connected |-> FALSE, error_step |-> 3],
     [state |-> "Error", connected |-> TRUE, error_step |-> 10]}

InitResting ==
    /\ InitChannel
    /\ InitLink
    /\ InitCall
    /\ last_response = <<>>
    /\ retry = 0
    /\ result = "none"
    /\ last_api = "none"
    /\ n_calls = 0
    /\ phase_res = [n \in 1..10 |-> "none"]
    /\ max_tx = 0
    /\ tx_log = <<>>
    /\ pub_len = 0
    /\ InitProc
    /\ InitBridge
    /\ codec = [op |-> "none"]
    /\ use_ssl = TRUE
    /\ \E s \in RestingSessions :
          /\ state = s.state
          /\ connected = s.connected
          /\ error_step = s.error_step
    /\ pc = "idle"

\* the link with the modem sending what it has pending in one piece
LinkStepWhole ==
    \/ Link_TxCplt
    \/ Modem_Deliver(Len(modem_out))

NextDisc ==
    \/ A7600_MQTT_Disconnect_Call
    \/ Disconnect_Next
    \/ Disconnect_Done
    \/ ExchangeStep
    \/ LinkStepWhole

SpecDisc == InitResting /\ [][NextDisc]_vars

\* The program runs: an exchange in progress takes its next step and the
\* teardown goes on when an exchange has returned.
SpecDiscFair ==
    /\ SpecDisc
    /\ WF_vars(ExchangeStep)
    /\ WF_vars(Disconnect_Next \/ Disconnect_Done)

\* A7600_MQTT_Disconnect has returned
DisconnectReturned == pc = "idle" /\ last_api = "Disconnect" /\ result # "none"

\* the commands of the exchanges logged, in order
LoggedCommands == [i \in 1..Len(tx_log) |-> tx_log[i].c]

TeardownCommands == <<"AT+CMQTTDISC", "AT+CMQTTREL", "AT+CMQTTSTOP">>

-----------------------------------------------------------------------------
(* A7600_MQTT_Publish: topic length, topic, payload length, payload,       *)
(* publish; the first exchange that fails ends the operation.              *)

\* longest payload published among the short ones
MaxPayload == 1

\* payload lengths of the publishes: short ones, and one byte more than the
\* transmit buffer of the UART holds
PayloadLens == (0..MaxPayload) \cup {LINK_TX_BUFFER_SIZE + 1}

PublishSteps ==
    [pub_topic_len   |-> [c |-> "AT+CMQTTTOPIC", e |-> S_PROMPT],
     pub_topic       |-> [c |-> "topic", e |-> S_OK],
     pub_payload_len |-> [c |-> "AT+CMQTTPAYLOAD", e |-> S_PROMPT],
     pub_payload     |-> [c |-> "payload", e |-> S_OK],
     pub_exec        |-> [c |-> "AT+CMQTTPUB", e |-> S_PUBACK]]

PublishPcs == DOMAIN PublishSteps

\* a publish that goes on after an exchange that failed
Publish_Continues_Always(ok) == TRUE

\* `if (!send_and_wait(...))` and `if (!wait_response(...))`
Publish_Continues(ok) == ok

\* a publish that does not look at the connected flag
Publish_Rejects_Never(conn) == FALSE

\* `if (!handle->connected) return MQTT_NOT_CONNECTED;`
Publish_Rejects(conn) == ~conn

\* A7600_MQTT_Publish is called with a payload of len bytes: refused when
\* not connected, otherwise state Publishing and the first exchange.
A7600_MQTT_Publish_Call ==
    /\ pc = "idle"
    /\ cpc = "idle"
    /\ n_calls < MaxOps
    /\ n_calls' = n_calls + 1
    /\ last_api' = "Publish"
    /\ \E len \in PayloadLens : pub_len' = len
    /\ IF Publish_Rejects(connected)
       THEN /\ result' = "MQTT_NOT_CONNECTED"
            /\ UNCHANGED <<chanVars, tx_busy, linkVars, bufVars, callVars,
                           obsVars, pc, state, connected, error_step,
                           last_response, use_ssl, procVars, bridgeVars, retry, phase_res, max_tx,
                           tx_log>>
       ELSE /\ result' = "none"
            /\ state' = "Publishing"
            /\ pc' = "pub_topic_len"
            /\ SendAndWait_Enter(PublishSteps["pub_topic_len"].c,
                                 PublishSteps["pub_topic_len"].e,
                                 MQTT_CMD_TIMEOUT)
            /\ tx_log' = <<>>
            /\ UNCHANGED <<chanVars, tx_busy, linkVars, connected, error_step,
                           last_response, use_ssl, procVars, bridgeVars, retry, phase_res, max_tx>>

\* An exchange failed: state back to Connected, MQTT_ERROR.
Publish_Fail ==
    /\ pc \in PublishPcs
    /\ cpc = "ret"
    /\ ~Publish_Continues(cres)
    /\ state' = "Connected"
    /\ result' = "MQTT_ERROR"
    /\ pc' = "idle"
    /\ cpc' = "idle"
    /\ LogExchange
    /\ UNCHANGED <<chanVars, tx_busy, linkVars, bufVars, cmd, expected,
                   timeout_ms, el, cres, obsVars, connected, error_step,
                   last_response, use_ssl, procVars, bridgeVars, retry, last_api, n_calls,
                   phase_res, max_tx, pub_len>>

\* An exchange succeeded and the next one is a send_and_wait.
Publish_Next ==
    /\ pc \in {"pub_topic_len", "pub_topic", "pub_payload"}
    /\ cpc = "ret"
    /\ Publish_Continues(cres)
    /\ pc' = CASE pc = "pub_topic_len" -> "pub_topic"
               [] pc = "pub_topic" -> "pub_payload_len"
               [] pc = "pub_payload" -> "pub_exec"
    /\ SendAndWait_Enter(PublishSteps[pc'].c, PublishSteps[pc'].e,
                         MQTT_CMD_TIMEOUT)
    /\ LogExchange
    /\ UNCHANGED <<chanVars, tx_busy, linkVars, state, connected, error_step,
                   last_response, use_ssl, procVars, bridgeVars, retry, result, last_api, n_calls,
                   phase_res, max_tx, pub_len>>

\* The prompt for the payload came: clear_rx_buffer, UART_DMA_Transmit of
\* the payload without a wait on the transmitter, then wait_response.
\* handed is whether UART_DMA_Transmit started a transfer, of at most
\* UART_DMA_TX_BUFFER_SIZE bytes.
Publish_SendPayload ==
    /\ pc = "pub_payload_len"
    /\ cpc = "ret"
    /\ Publish_Continues(cres)
    /\ pc' = "pub_payload"
    /\ rx_buffer' = <<>>
    /\ rx_len' = 0
    /\ LET handed == pub_len > 0 /\ ~tx_busy
       IN  /\ hw_tx' = IF handed THEN "payload" ELSE hw_tx
           /\ tx_busy' = (tx_busy \/ handed)
           /\ sent' = handed
    /\ cmd' = "payload"
    /\ expected' = PublishSteps["pub_payload"].e
    /\ timeout_ms' = MQTT_CMD_TIMEOUT
    /\ el' = 0
    /\ cres' = FALSE
    /\ cpc' = "wr_loop"
    /\ stream' = link_rx
    /\ polled' = 0
    /\ in_window' = FALSE
    /\ ans_from' = -1
    /\ LogExchange
    /\ UNCHANGED <<chanVars, link_rx, modem_out, state, connected, error_step,
                   last_response, use_ssl, procVars, bridgeVars, retry, result, last_api, n_calls,
                   phase_res, max_tx, pub_len>>

\* The publish was acknowledged: state Connected, MQTT_OK.
Publish_Done ==
    /\ pc = "pub_exec"
    /\ cpc = "ret"
    /\ Publish_Continues(cres)
    /\ state' = "Connected"
    /\ result' = "MQTT_OK"
    /\ pc' = "idle"
    /\ cpc' = "idle"
    /\ LogExchange
    /\ UNCHANGED <<chanVars, tx_busy, linkVars, bufVars, cmd, expected,
                   timeout_ms, el, cres, obsVars, connected, error_step,
                   last_response, use_ssl, procVars, bridgeVars, retry, last_api, n_calls,
                   phase_res, max_tx, pub_len>>

-----------------------------------------------------------------------------
(* SpecPub: publishes from every state a session rests in.                 *)

NextPub ==
    \/ A7600_MQTT_Publish_Call
    \/ Publish_Fail
    \/ Publish_Next
    \/ Publish_SendPayload
    \/ Publish_Done
    \/ ExchangeStep
    \/ LinkStepWhole

SpecPub == InitResting /\ [][NextPub]_vars

\* bytes of the payload that UART_DMA_Transmit hands to the hardware in a
\* Publish_SendPayload step: none when the transmitter is busy, at most the
\* transmit buffer otherwise
PayloadHanded ==
    IF sent' THEN Min(pub_len, LINK_TX_BUFFER_SIZE) ELSE 0

(* C36: in A7600_MQTT_Publish the number of payload bytes handed to the    *)
(* hardware transmitter equals the length announced in the payload-length  *)
(* command, whatever the payload length and the transmit-busy flag when    *)
(* the payload is sent.                                                    *)
C36_PayloadHandedWhole ==
    [][Publish_SendPayload => PayloadHanded = pub_len]_vars

PublishRan ==
    /\ pc = "idle"
    /\ last_api = "Publish"
    /\ result \in {"MQTT_OK", "MQTT_ERROR"}

\* the commands of the five stages, in order
PublishCommands ==
    <<"AT+CMQTTTOPIC", "topic", "AT+CMQTTPAYLOAD", "payload", "AT+CMQTTPUB">>

(* C11: if an exchange of A7600_MQTT_Publish fails, at whichever of the    *)
(* five stages, the call returns MQTT_ERROR, no exchange of a later stage  *)
(* is run, and on return state is Connected and connected is still true;   *)
(* a stage is only ever entered after every stage before it succeeded.     *)
C11_PublishFailureRestores ==
    /\ PublishRan =>
          /\ state = "Connected"
          /\ connected
          /\ Len(tx_log) \in 1..5
          /\ LoggedCommands = SubSeq(PublishCommands, 1, Len(tx_log))
          /\ \A i \in 1..(Len(tx_log) - 1) : tx_log[i].ok
          /\ (result = "MQTT_ERROR") = ~tx_log[Len(tx_log)].ok
          /\ result = "MQTT_OK" => Len(tx_log) = 5
    /\ (last_api = "Publish" /\ pc \in PublishPcs) =>
          /\ \A i \in 1..Len(tx_log) : tx_log[i].ok
          /\ state = "Publishing"

\* the wait for the acknowledgement of the payload failed
C11_Witness ==
    /\ PublishRan
    /\ result = "MQTT_ERROR"
    /\ Len(tx_log) = 4
    /\ tx_log[4].sent
    /\ ~tx_log[4].ok
    /\ state = "Connected"


\* A7600_MQTT_Publish has returned MQTT_OK
PublishSucceeded == PublishRan /\ result = "MQTT_OK"

(* C28: in a successful A7600_MQTT_Publish the transmissions on the modem  *)
(* link are, in this order, the topic-length command, the topic bytes, the *)
(* payload-length command, the payload bytes and the publish-execute       *)
(* command; each data transfer is sent only after the prompt for its       *)
(* length command was received, and each following command only after the  *)
(* acknowledgement of what preceded it was received.                       *)
C28_PublishTransmissionOrder ==
    PublishSucceeded =>
        /\ LoggedCommands = PublishCommands
        /\ \A i \in 1..Len(tx_log) :
              /\ tx_log[i].sent
              /\ tx_log[i].ok
              /\ tx_log[i].answered


-----------------------------------------------------------------------------
(* A7600_MQTT_Publish as a function of its arguments and of what the link  *)
(* does at each of its five stages.                                        *)

\* MQTT_QoS_t
QosLevels == {0, 1, 2}

\* the topic of the call
PubTopic == <<"t">>

\* the payload bytes of a call with argument len
PubPayload(len) == [i \in 1..len |-> "p"]

\* a publish whose execute command carries the retain flag
PublishTexts_WithRetain(topic, len, qos, retain) ==
    <<[text |-> "AT+CMQTTTOPIC=0,%d", args |-> <<Len(topic)>>],
      [text |-> "topic", args |-> topic],
      [text |-> "AT+CMQTTPAYLOAD=0,%d", args |-> <<len>>],
      [text |-> "payload", args |-> PubPayload(len)],
      [text |-> "AT+CMQTTPUB=0,%d,60,%d",
       args |-> <<qos, IF retain THEN 1 ELSE 0>>]>>

\* What each stage hands to the transmitter: the three snprintf commands
\* with their arguments, the topic and the payload.
PublishTexts(topic, len, qos, retain) ==
    <<[text |-> "AT+CMQTTTOPIC=0,%d", args |-> <<Len(topic)>>],
      [text |-> "topic", args |-> topic],
      [text |-> "AT+CMQTTPAYLOAD=0,%d", args |-> <<len>>],
      [text |-> "payload", args |-> PubPayload(len)],
      [text |-> "AT+CMQTTPUB=0,%d,60", args |-> <<qos>>]>>

\* the stages in order
PublishStages ==
    <<"pub_topic_len", "pub_topic", "pub_payload_len", "pub_payload",
      "pub_exec">>

\* What the link does at a stage: the transmitter takes the transfer or
\* stays busy, and the bytes the wait reads.
StageEnvs(i) ==
    {[tx_ok |-> TRUE, buf |-> b] :
        b \in ResponseTexts(PublishSteps[PublishStages[i]].c)}
    \cup {[tx_ok |-> FALSE, buf |-> <<>>]}

PublishEnvs ==
    {<<e1, e2, e3, e4, e5>> :
        e1 \in StageEnvs(1), e2 \in StageEnvs(2), e3 \in StageEnvs(3),
        e4 \in StageEnvs(4), e5 \in StageEnvs(5)}

\* the result of stage i: send_and_wait fails when the command cannot be
\* sent; the payload stage is a bare wait_response
StageOk(i, env) ==
    /\ i = 4 \/ env[i].tx_ok
    /\ Contains(env[i].buf, PublishSteps[PublishStages[i]].e)

\* stage i hands its transfer to the transmitter; UART_DMA_Transmit
\* refuses an empty payload
StageSent(i, len, env) == env[i].tx_ok /\ (i = 4 => len > 0)

\* number of stages run: up to the first that fails
StagesRun(env) ==
    LET failed == {i \in 1..5 : ~StageOk(i, env)}
    IN  IF failed = {} THEN 5
        ELSE CHOOSE i \in failed : \A j \in failed : i <= j

IsSent(r) == r.sent

\* A7600_MQTT_Publish(handle, topic, payload, len, qos, retain) on a
\* session with connected = conn and state = st: the transfers made, in
\* order, the value returned and the state left.
PublishRun(conn, st, topic, len, qos, retain, env) ==
    IF Publish_Rejects(conn)
    THEN [tx |-> <<>>, result |-> "MQTT_NOT_CONNECTED", state |-> st]
    ELSE LET n     == StagesRun(env)
             texts == PublishTexts(topic, len, qos, retain)
             runs  == [i \in 1..n |-> [t |-> texts[i],
                                       sent |-> StageSent(i, len, env)]]
             made  == SelectSeq(runs, IsSent)
         IN  [tx |-> [i \in 1..Len(made) |-> made[i].t],
              result |-> IF StageOk(n, env) THEN "MQTT_OK" ELSE "MQTT_ERROR",
              state |-> "Connected"]

\* One call of A7600_MQTT_Publish, from the call to the return.
A7600_MQTT_Publish_Whole ==
    /\ pc = "idle"
    /\ cpc = "idle"
    /\ last = NoOp
    /\ \E len \in 0..MaxPayload, qos \in QosLevels, retain \in BOOLEAN,
          env \in PublishEnvs :
          LET run == PublishRun(connected, state, PubTopic, len, qos,
                                retain, env)
          IN  /\ last' = [op |-> "Publish", conn |-> connected, st |-> state,
                          len |-> len, qos |-> qos, retain |-> retain,
                          env |-> env, ret |-> run]
              /\ result' = run.result
              /\ state' = run.state
              /\ pub_len' = len
    /\ n_calls' = n_calls + 1
    /\ last_api' = "Publish"
    /\ UNCHANGED <<ringVars, txVars, linkVars, bufVars, callVars, obsVars,
                   pc, connected, error_step, last_response, use_ssl, retry,
                   phase_res, max_tx, tx_log, procVars, bridgeVars, app,
                   rd>>

SpecPubArgs == InitResting /\ [][A7600_MQTT_Publish_Whole]_vars

(* C29: two A7600_MQTT_Publish calls that start from the same session      *)
(* state, meet the same modem responses and differ only in the retain      *)
(* argument transmit the same bytes and return the same result and final   *)
(* state.                                                                  *)
C29_RetainNotTransmitted ==
    last.op = "Publish" =>
        PublishRun(last.conn, last.st, PubTopic, last.len, last.qos,
                   ~last.retain, last.env) = last.ret

\* a publish with retain set that ran all five stages and returned MQTT_OK
C29_Witness ==
    /\ last.op = "Publish"
    /\ last.retain
    /\ last.ret.result = "MQTT_OK"
    /\ Len(last.ret.tx) = 5
    /\ result = "MQTT_OK"

-----------------------------------------------------------------------------
(* A7600_MQTT_Subscribe: one exchange.                                     *)

\* a subscribe that takes the modem's "OK" for the acknowledgement
SubscribeExpected_BareOk == S_OK

\* the substring A7600_MQTT_Subscribe waits for
SubscribeExpected == S_SUBACK

\* A7600_MQTT_Subscribe is called: refused when not connected, otherwise
\* state Subscribing and the exchange.
A7600_MQTT_Subscribe_Call ==
    /\ pc = "idle"
    /\ cpc = "idle"
    /\ n_calls < MaxOps
    /\ n_calls' = n_calls + 1
    /\ last_api' = "Subscribe"
    /\ IF ~connected
       THEN /\ result' = "MQTT_NOT_CONNECTED"
            /\ UNCHANGED <<chanVars, tx_busy, linkVars, bufVars, callVars,
                           obsVars, pc, state, connected, error_step,
                           last_response, use_ssl, procVars, bridgeVars, retry, phase_res, max_tx,
                           tx_log, pub_len>>
       ELSE /\ result' = "none"
            /\ state' = "Subscribing"
            /\ pc' = "sub"
            /\ SendAndWait_Enter("AT+CMQTTSUB", SubscribeExpected,
                                 MQTT_CMD_TIMEOUT)
            /\ tx_log' = <<>>
            /\ UNCHANGED <<chanVars, tx_busy, linkVars, connected, error_step,
                           last_response, use_ssl, procVars, bridgeVars, retry, phase_res, max_tx,
                           pub_len>>

\* The exchange returned: state Connected, MQTT_OK or MQTT_ERROR.
Subscribe_Return ==
    /\ pc = "sub"
    /\ cpc = "ret"
    /\ state' = "Connected"
    /\ result' = IF cres THEN "MQTT_OK" ELSE "MQTT_ERROR"
    /\ pc' = "idle"
    /\ cpc' = "idle"
    /\ LogExchange
    /\ UNCHANGED <<chanVars, tx_busy, linkVars, bufVars, cmd, expected,
                   timeout_ms, el, cres, obsVars, connected, error_step,
                   last_response, use_ssl, procVars, bridgeVars, retry, last_api, n_calls,
                   phase_res, max_tx, pub_len>>

-----------------------------------------------------------------------------
(* SpecSub: subscribes from every state a session rests in.                *)

NextSub ==
    \/ A7600_MQTT_Subscribe_Call
    \/ Subscribe_Return
    \/ ExchangeStep
    \/ LinkStep

SpecSub == InitResting /\ [][NextSub]_vars

\* A7600_MQTT_Subscribe was carried out and has returned
SubscribeRan ==
    /\ pc = "idle"
    /\ last_api = "Subscribe"
    /\ result \in {"MQTT_OK", "MQTT_ERROR"}

-----------------------------------------------------------------------------
(* mavlink_bridge.c: the transport codecs. A byte is a number in 0..255,   *)
(* a character of transport text is a one-character string.                *)

hex_table ==
    <<"0", "1", "2", "3", "4", "5", "6", "7", "8", "9", "A", "B", "C", "D", "E", "F">>

b64_table ==
    <<"A", "B", "C", "D", "E", "F", "G", "H", "I", "J", "K", "L", "M",
      "N", "O", "P", "Q", "R", "S", "T", "U", "V", "W", "X", "Y", "Z",
      "a", "b", "c", "d", "e", "f", "g", "h", "i", "j", "k", "l", "m",
      "n", "o", "p", "q", "r", "s", "t", "u", "v", "w", "x", "y", "z",
      "0", "1", "2", "3", "4", "5", "6", "7", "8", "9", "+", "/">>

\* position of character c in table t, counted from 0; -1 when absent
IndexOf(t, c) ==
    IF \E i \in 1..Len(t) : t[i] = c
    THEN (CHOOSE i \in 1..Len(t) : t[i] = c) - 1
    ELSE -1

\* to_hex: two digits per byte, high nibble first
to_hex(data) ==
    LET out[i \in 0..Len(data)] ==
            IF i = 0 THEN <<>>
            ELSE out[i - 1] \o <<hex_table[((data[i] \div 16) % 16) + 1],
                                  hex_table[(data[i] % 16) + 1]>>
    IN  out[Len(data)]

\* the value from_hex gives a character: '0'..'9', 'A'..'F', 'a'..'f',
\* and 0 for any other
HexVal(c) ==
    LET lower == <<"a", "b", "c", "d", "e", "f">>
    IN  IF IndexOf(hex_table, c) >= 0 THEN IndexOf(hex_table, c)
        ELSE IF IndexOf(lower, c) >= 0 THEN IndexOf(lower, c) + 10
        ELSE 0

\* from_hex: one byte per pair of characters; a last single character is
\* left out (i + 1 >= len breaks the loop)
from_hex(src) ==
    [k \in 1..(Len(src) \div 2) |->
        (HexVal(src[2 * k - 1]) * 16 + HexVal(src[2 * k])) % 256]

\* the loop of to_base64: four characters per group of three octets, the
\* octets past the end of the data taken as 0
Base64Groups(data) ==
    LET len == Len(data)
        octet(i) == IF i <= len THEN data[i] ELSE 0
        n == (len + 2) \div 3
        out[g \in 0..n] ==
            IF g = 0 THEN <<>>
            ELSE LET triple == octet(3 * g - 2) * 65536
                               + octet(3 * g - 1) * 256 + octet(3 * g)
                 IN  out[g - 1] \o
                     <<b64_table[((triple \div 262144) % 64) + 1],
                       b64_table[((triple \div 4096) % 64) + 1],
                       b64_table[((triple \div 64) % 64) + 1],
                       b64_table[(triple % 64) + 1]>>
    IN  out[n]

\* an encoder that leaves the characters of the zero fill in place
to_base64_NoPadding(data) == Base64Groups(data)

\* to_base64: the groups, then '=' over the last one or two characters
to_base64(data) ==
    LET out == Base64Groups(data)
        j   == Len(out)
        mod == Len(data) % 3
    IN  IF mod = 1
        THEN [i \in 1..j |-> IF i >= j - 1 THEN "=" ELSE out[i]]
        ELSE IF mod = 2
        THEN [i \in 1..j |-> IF i = j THEN "=" ELSE out[i]]
        ELSE out

b64_val(c) == IndexOf(b64_table, c)

\* the inner while of from_base64: from index i (counted from 1), the
\* first index that holds an alphabet character or '=', or Len(src) + 1
RECURSIVE SkipNonBase64(_, _)
SkipNonBase64(src, i) ==
    IF i <= Len(src) /\ b64_val(src[i]) = -1 /\ src[i] # "="
    THEN SkipNonBase64(src, i + 1)
    ELSE i

\* the outer while of from_base64 from index i with out already written
RECURSIVE Base64Loop(_, _, _)
Base64Loop(src, i, out) ==
    LET len == Len(src)
        p1 == SkipNonBase64(src, i)
        p2 == SkipNonBase64(src, p1 + 1)
        p3 == SkipNonBase64(src, p2 + 1)
        p4 == SkipNonBase64(src, p3 + 1)
    IN  IF p1 > len \/ p2 > len \/ p3 > len \/ p4 > len
        THEN out
        ELSE LET v1 == b64_val(src[p1])
                 v2 == b64_val(src[p2])
                 c3 == src[p3]
                 v3 == IF c3 = "=" THEN 0 ELSE b64_val(c3)
                 c4 == src[p4]
                 v4 == IF c4 = "=" THEN 0 ELSE b64_val(c4)
                 b1 == (v1 * 4 + ((v2 \div 16) % 4)) % 256
                 b2 == (v2 % 16) * 16 + ((v3 \div 4) % 16)
                 b3 == (v3 % 4) * 64 + (v4 % 64)
                 bytes == IF v1 >= 0 /\ v2 >= 0
                          THEN IF c3 # "="
                               THEN IF c4 # "=" THEN <<b1, b2, b3>>
                                    ELSE <<b1, b2>>
                               ELSE <<b1>>
                          ELSE <<>>
             IN  Base64Loop(src, p4 + 1, out \o bytes)

from_base64(src) == Base64Loop(src, 1, <<>>)

-----------------------------------------------------------------------------
(* SpecCodec: each codec applied to a byte sequence and its decoder to     *)
(* the text produced.                                                      *)

\* longest byte sequence encoded
MaxCodecLen == 3
\* byte values whose six-bit groups fall in every range of the alphabet
CodecBytes == {0, 75, 163, 251, 253, 255}

\* sequences that put every byte value at every position of a group
SpreadBytes ==
    {[i \in 1..n |-> (b + 85 * (i - 1)) % 256] :
        b \in 0..255, n \in 1..MaxCodecLen}

InitCodec ==
    /\ InitChannel
    /\ InitLink
    /\ InitCall
    /\ InitSessionCore
    /\ use_ssl = FALSE
    /\ error_step = 0
    /\ pc = "none"
    /\ codec \in {[op |-> "input", x |-> x] :
                     x \in SeqsUpTo(CodecBytes, MaxCodecLen) \cup SpreadBytes}

\* to_hex or to_base64 applied to the input
Codec_Encode(kind) ==
    /\ codec.op = "input"
    /\ codec' = [op |-> kind, x |-> codec.x,
                 text |-> IF kind = "to_hex" THEN to_hex(codec.x)
                          ELSE to_base64(codec.x)]
    /\ UNCHANGED <<chanVars, tx_busy, driverVars, procVars, bridgeState>>

\* from_hex or from_base64 applied to the text its encoder produced
Codec_Decode ==
    /\ codec.op \in {"to_hex", "to_base64"}
    /\ codec' = IF codec.op = "to_hex"
                THEN [op |-> "from_hex", x |-> codec.x, text |-> codec.text,
                      out |-> from_hex(codec.text)]
                ELSE [op |-> "from_base64", x |-> codec.x, text |-> codec.text,
                      out |-> from_base64(codec.text)]
    /\ UNCHANGED <<chanVars, tx_busy, driverVars, procVars, bridgeState>>

NextCodec ==
    \/ \E kind \in {"to_hex", "to_base64"} : Codec_Encode(kind)
    \/ Codec_Decode

SpecCodec == InitCodec /\ [][NextCodec]_vars

(* C18: for every byte sequence x, the empty one and lengths 0, 1 and 2    *)
(* modulo 3 included, from_hex(to_hex(x)) = x and                          *)
(* from_base64(to_base64(x)) = x.                                          *)
C18_RoundTrip ==
    codec.op \in {"from_hex", "from_base64"} => codec.out = codec.x

\* a Base64 round trip of two bytes: one padding character, and the
\* characters '+' or '/' in the text
C18_Witness ==
    /\ codec.op = "from_base64"
    /\ Len(codec.x) = 2
    /\ codec.text[4] = "="
    /\ codec.text[1] \in {"+", "/"}
    /\ codec.out = codec.x

-----------------------------------------------------------------------------
(* mavlink_bridge.c: framing of the telemetry stream. The receive ring of  *)
(* the telemetry UART is the queue tel_rx of the bytes stored and not read  *)
(* yet, kept below a full buffer of unread bytes as on the modem link.     *)

MAVLINK_V2_MAGIC == 253
MAVLINK_HEADER_LEN == 10
MAVLINK_CHECKSUM_LEN == 2
MAVLINK_SIG_LEN == 13
MAVLINK_IFLAG_SIGNED == 1
FRAME_TIMEOUT_MS == 50
\* sizeof(bridge.rx_buf)
BRIDGE_RX_BUF_SIZE == 512
\* `if (packet_len > 300)`
PACKET_LEN_CEILING == 300

BRIDGE_TOPIC_TX == "uav4g/mavlink/tx"
BRIDGE_TOPIC_RX == "uav4g/mavlink/rx"

\* a length that leaves the signature block out of a signed frame
PacketLen_NoSignature(payload_len, incompat_flags) ==
    MAVLINK_HEADER_LEN + payload_len + MAVLINK_CHECKSUM_LEN

\* packet_len of MavlinkBridge_Process; incompat_flags & MAVLINK_IFLAG_SIGNED
\* is the lowest bit of the flags byte
PacketLen(payload_len, incompat_flags) ==
    MAVLINK_HEADER_LEN + payload_len + MAVLINK_CHECKSUM_LEN
    + (IF incompat_flags % 2 = MAVLINK_IFLAG_SIGNED
       THEN MAVLINK_SIG_LEN ELSE 0)

\* payload_len and incompat_flags are bytes: no header gives a packet_len
\* above the ceiling, and the branch that tests for it is never taken
PacketLen_WithinCeiling ==
    \A payload_len \in 0..255, incompat_flags \in 0..255 :
        PacketLen(payload_len, incompat_flags) <= PACKET_LEN_CEILING

\* a removal that drops the bytes behind the frame with it
RemoveFrame_DropsRest(buf, packet_len) ==
    SubSeq(buf, Len(buf) + 1, Len(buf))

\* the removal of an extracted frame: the bytes behind the first
\* packet_len bytes move to the front, rx_len drops by packet_len
RemoveFrame(buf, packet_len) ==
    SubSeq(buf, packet_len + 1, Len(buf))

\* The while loop of MavlinkBridge_Process on the accumulation buf, frames
\* being the frames handed to send_frame so far.
RECURSIVE ParseFrames(_, _)
ParseFrames(buf, frames) ==
    IF Len(buf) = 0 THEN [buf |-> buf, frames |-> frames]
    ELSE IF buf[1] # MAVLINK_V2_MAGIC THEN ParseFrames(Tail(buf), frames)
    ELSE IF Len(buf) < 3 THEN [buf |-> buf, frames |-> frames]
    ELSE LET packet_len == PacketLen(buf[2], buf[3])
         IN  IF packet_len > PACKET_LEN_CEILING
             THEN ParseFrames(Tail(buf), frames)
             ELSE IF Len(buf) >= packet_len
             THEN ParseFrames(RemoveFrame(buf, packet_len),
                              Append(frames, SubSeq(buf, 1, packet_len)))
             ELSE [buf |-> buf, frames |-> frames]

\* what A7600_MQTT_Publish leaves in the response buffer: the
\* acknowledgement of the publish command, an error line, or nothing when
\* an exchange timed out
PublishResponses == {S_PUBACK, S_ERROR, <<>>}

\* each frame handed to the publish a second time
send_frame_Twice(frames) ==
    [i \in 1..(2 * Len(frames)) |->
        [topic |-> BRIDGE_TOPIC_TX,
         payload |-> to_base64(frames[(i + 1) \div 2])]]

\* send_frame: the publishes of the frames of one MavlinkBridge_Process
\* call, BRIDGE_ENCODING being ENCODE_BASE64; the result of
\* A7600_MQTT_PublishString is not looked at
send_frame(frames) ==
    [i \in 1..Len(frames) |->
        [topic |-> BRIDGE_TOPIC_TX, payload |-> to_base64(frames[i])]]

\* MavlinkBridge_Process. resp is how the modem answers the publishes of
\* this call; A7600_MQTT_Publish leaves state Connected and the flag
\* connected as they were (SpecPub). now is HAL_GetTick() at entry; the
\* time the call takes passes in Tick.
MavlinkBridge_Process(resp) ==
    /\ pc = "idle"
    /\ cpc = "idle"
    /\ connected
    /\ LET available == Len(tel_rx)
           space     == BRIDGE_RX_BUF_SIZE - Len(bridge_rx_buf)
           read      == Min(available, space)
           buf       == bridge_rx_buf \o SubSeq(tel_rx, 1, read)
           tick      == IF read > 0 THEN now ELSE last_rx_tick
           expired   == Len(buf) > 0 /\ now - tick > FRAME_TIMEOUT_MS
           parsed    == ParseFrames(buf, <<>>)
           frames    == IF expired THEN <<>> ELSE parsed.frames
       IN  /\ tel_rx' = SubSeq(tel_rx, read + 1, available)
           /\ last_rx_tick' = tick
           /\ bridge_rx_buf' = IF expired THEN <<>> ELSE parsed.buf
           /\ timed_out' = (timed_out \/ expired)
           /\ pub_log' = pub_log \o send_frame(frames)
           /\ IF Len(frames) = 0
              THEN /\ resp = S_PUBACK
                   /\ UNCHANGED <<state, hw_tx, bufVars>>
              ELSE /\ state' = "Connected"
                   /\ hw_tx' = IF resp = S_PUBACK THEN "AT+CMQTTPUB"
                               ELSE "AT+CMQTTTOPIC"
                   /\ rx_buffer' = resp
                   /\ rx_len' = Len(resp)
    /\ UNCHANGED <<chanVars, tx_busy, link_rx, modem_out, callVars, obsVars,
                   pc, connected, error_step, last_response, use_ssl, retry,
                   result, last_api, n_calls, phase_res, max_tx, tx_log,
                   pub_len, procVars, codec, now, tel_stream, tel_in,
                   tel_pause>>

\* The telemetry UART receives the next k bytes of the stream. The bytes
\* that follow the vehicle's pause arrive only after the bridge has read
\* all earlier bytes and more than the frame timeout has passed since it
\* read the last of them.
Tel_Receive(k) ==
    /\ k \in 1..Len(tel_in)
    /\ Len(tel_in) = tel_pause =>
          /\ tel_rx = <<>>
          /\ now - last_rx_tick > FRAME_TIMEOUT_MS
    /\ tel_rx' = tel_rx \o SubSeq(tel_in, 1, k)
    /\ tel_in' = SubSeq(tel_in, k + 1, Len(tel_in))
    /\ UNCHANGED <<chanVars, tx_busy, driverVars, procVars, codec,
                   bridge_rx_buf, last_rx_tick, now, tel_stream, tel_pause,
                   pub_log, timed_out>>

\* latest tick followed
MaxTick == 51

\* HAL_GetTick advances by d: the main loop is elsewhere, or blocked in a
\* publish. Time is followed while the bridge holds bytes whose timeout
\* has not passed; at other times its passing changes nothing for the
\* bridge.
Tick(d) ==
    /\ Len(bridge_rx_buf) > 0
    /\ now - last_rx_tick <= FRAME_TIMEOUT_MS
    /\ now + d <= MaxTick
    /\ now' = now + d
    /\ UNCHANGED <<chanVars, tx_busy, driverVars, procVars, codec,
                   bridge_rx_buf, last_rx_tick, tel_stream, tel_in, tel_pause,
                   tel_rx, pub_log, timed_out>>

-----------------------------------------------------------------------------
(* SpecBridge: MavlinkBridge_Process on a connected session, the vehicle   *)
(* sending garbage bytes and complete frames in pieces, with and without  *)
(* pauses longer than the frame timeout.                                   *)

\* most items (garbage bytes, frames) of one telemetry stream
MaxItems == 3

\* a garbage byte that is not the magic byte
GarbageByte == 1
\* an unsigned frame of payload length 1 whose payload byte equals the
\* magic byte: header, payload, checksum
UnsignedFrame == <<MAVLINK_V2_MAGIC, 1, 0, 11, 12, 13, 14, 15, 16, 17,
                   MAVLINK_V2_MAGIC, 21, 22>>
\* a signed frame of payload length 0: header, checksum, signature
SignedFrame == <<MAVLINK_V2_MAGIC, 0, MAVLINK_IFLAG_SIGNED,
                 11, 12, 13, 14, 15, 16, 17, 21, 22,
                 31, 32, 33, 34, 35, 36, 37, 38, 39, 40, 41, 42, 43>>

TelItems == {"garbage", "unsigned", "signed"}

\* frames the vehicle stopped sending after 1, 3 and 5 bytes
PartialItems == {"cut1", "cut3", "cut5"}

ItemBytes(item) ==
    IF item = "garbage" THEN <<GarbageByte>>
    ELSE IF item = "unsigned" THEN UnsignedFrame
    ELSE IF item = "signed" THEN SignedFrame
    ELSE IF item = "cut1" THEN SubSeq(UnsignedFrame, 1, 1)
    ELSE IF item = "cut3" THEN SubSeq(UnsignedFrame, 1, 3)
    ELSE SubSeq(UnsignedFrame, 1, 5)

\* the bytes of a stream of items, in order
RECURSIVE StreamBytes(_)
StreamBytes(items) ==
    IF items = <<>> THEN <<>>
    ELSE ItemBytes(Head(items)) \o StreamBytes(Tail(items))

\* the frames of a stream of items, in order
RECURSIVE StreamFrames(_)
StreamFrames(items) ==
    IF items = <<>> THEN <<>>
    ELSE IF Head(items) \in {"unsigned", "signed"}
    THEN <<ItemBytes(Head(items))>> \o StreamFrames(Tail(items))
    ELSE StreamFrames(Tail(items))

\* a connected session at rest, the bridge just initialised
InitBridgeSession ==
    /\ InitChannel
    /\ InitLink
    /\ InitCall
    /\ last_response = <<>>
    /\ retry = 0
    /\ result = "none"
    /\ last_api = "none"
    /\ n_calls = 0
    /\ phase_res = [n \in 1..10 |-> "none"]
    /\ max_tx = 0
    /\ tx_log = <<>>
    /\ pub_len = 0
    /\ InitProc
    /\ codec = [op |-> "none"]
    /\ use_ssl = TRUE
    /\ state = "Connected"
    /\ connected = TRUE
    /\ error_step = 0
    /\ pc = "idle"
    /\ bridge_rx_buf = <<>>
    /\ last_rx_tick = 0
    /\ now = 0
    /\ tel_rx = <<>>
    /\ pub_log = <<>>
    /\ timed_out = FALSE

InitStream ==
    /\ InitBridgeSession
    /\ tel_stream \in SeqsUpTo(TelItems, MaxItems)
    /\ tel_in = StreamBytes(tel_stream)
    /\ tel_pause = -1

\* Where the stream is cut into arrivals: inside an item after its first,
\* second and third byte (magic, length, flags), before its last byte and
\* at its end. Returns the lengths of tel_in left at the cuts.
RECURSIVE CutPoints(_)
CutPoints(items) ==
    IF items = <<>> THEN {0}
    ELSE LET rest == Len(StreamBytes(Tail(items)))
             n    == Len(ItemBytes(Head(items)))
         IN  {rest + n - c : c \in {1, 2, 3, n - 1, n} \cap 1..n}
             \cup CutPoints(Tail(items))

\* the next arrival: up to the next cut of the stream
NextPiece ==
    CHOOSE k \in 1..Len(tel_in) :
        /\ Len(tel_in) - k \in CutPoints(tel_stream)
        /\ \A j \in 1..(k - 1) : Len(tel_in) - j \notin CutPoints(tel_stream)

Tel_ReceivePiece == Len(tel_in) > 0 /\ Tel_Receive(NextPiece)

NextBridge ==
    \/ \E resp \in PublishResponses : MavlinkBridge_Process(resp)
    \/ Tel_ReceivePiece
    \/ Tick(FRAME_TIMEOUT_MS + 1)

SpecBridge == InitStream /\ [][NextBridge]_vars

\* s is an initial part of t
IsPrefix(s, t) == Len(s) <= Len(t) /\ s = SubSeq(t, 1, Len(s))

\* what the bridge has published, and what the frames of the stream encode to
PublishedPayloads == [i \in 1..Len(pub_log) |-> pub_log[i].payload]
ExpectedPayloads ==
    LET frames == StreamFrames(tel_stream)
    IN  [i \in 1..Len(frames) |-> to_base64(frames[i])]

\* the whole stream has arrived and the bridge has read it
StreamConsumed == tel_in = <<>> /\ tel_rx = <<>>

PublishedOncePerFrame ==
    /\ \A i \in 1..Len(pub_log) : pub_log[i].topic = BRIDGE_TOPIC_TX
    /\ IsPrefix(PublishedPayloads, ExpectedPayloads)
    /\ StreamConsumed => PublishedPayloads = ExpectedPayloads

(* C15 as stated: for any telemetry stream of non-magic garbage bytes and  *)
(* complete frames, MavlinkBridge_Process publishes on the forward topic   *)
(* exactly once per frame, in stream order, the encoding of exactly that   *)
(* frame's bytes, and nothing for garbage.                                 *)
C15_OnePublishPerFrame == PublishedOncePerFrame

(* C15 amended: the same, as long as no accumulation has been discarded by *)
(* the frame timeout, that is, no call of MavlinkBridge_Process found a    *)
(* partial frame held, no new byte, and more than 50 ms since its last     *)
(* read.                                                                   *)
C15_OnePublishPerFrameInTime == ~timed_out => PublishedOncePerFrame

\* garbage, a frame, garbage and a signed frame consumed in several reads,
\* two publishes made by different calls
C15_Witness ==
    /\ StreamConsumed
    /\ ~timed_out
    /\ Len(pub_log) = 2
    /\ pub_log[1].payload # pub_log[2].payload
    /\ Head(tel_stream) = "garbage"
    /\ now > 0

-----------------------------------------------------------------------------
(* SpecStale: the vehicle stops in the middle of a frame, stays silent     *)
(* for longer than the frame timeout after the bridge has taken the        *)
(* partial frame, and then sends a complete frame.                         *)

\* the timeout exactly, and one tick more
TickSteps == {FRAME_TIMEOUT_MS, FRAME_TIMEOUT_MS + 1}

InitStale ==
    /\ InitBridgeSession
    /\ tel_stream \in {<<p, f>> : p \in PartialItems, f \in {"unsigned", "signed"}}
    /\ tel_in = StreamBytes(tel_stream)
    /\ tel_pause = Len(ItemBytes(tel_stream[2]))

NextStale ==
    \/ \E resp \in PublishResponses : MavlinkBridge_Process(resp)
    \/ Tel_ReceivePiece
    \/ \E d \in TickSteps : Tick(d)

SpecStale == InitStale /\ [][NextStale]_vars

\* the complete frame the vehicle sends after its pause
FrameAfterPause == ItemBytes(tel_stream[2])

(* C17: a partial frame held by the bridge when no further byte arrives    *)
(* within the 50 ms frame timeout is discarded, and the valid frame that   *)
(* arrives afterwards is published with exactly its own bytes: nothing     *)
(* published mixes bytes of the stale partial frame with later bytes.      *)
C17_StalePartialDiscarded ==
    /\ \A i \in 1..Len(pub_log) :
          pub_log[i].payload = to_base64(FrameAfterPause)
    /\ StreamConsumed => (Len(pub_log) = 1 /\ bridge_rx_buf = <<>>)

-----------------------------------------------------------------------------
(* A7600_MQTT_Process: unsolicited lines of the modem.                     *)

S_RXSTART   == <<"+CMQTTRXSTART:">>
S_RXPAYLOAD == <<"+CMQTTRXPAYLOAD:">>
S_RXEND     == <<"+CMQTTRXEND:">>
S_CONNLOST  == <<"+CMQTTCONNLOST:">>

\* what the modem may send unasked: the markers, and other text
UrcSymbols == {S_RXSTART[1], S_RXPAYLOAD[1], S_RXEND[1], S_CONNLOST[1], "x"}

\* number of symbols the modem sends unasked in one behaviour
MaxUrc == 3

\* the text strstr looks for in the topic of an inbound message
S_MAVLINK_RX == <<"mavlink/rx">>

\* MavlinkBridge_OnMessage: the transfers handed to UART_DMA_Transmit on
\* the telemetry UART, BRIDGE_ENCODING being ENCODE_BASE64
MavlinkBridge_OnMessage(topic, payload) ==
    IF Contains(topic, S_MAVLINK_RX)
    THEN LET decoded == from_base64(payload)
         IN  IF Len(decoded) > 0 THEN <<decoded>> ELSE <<>>
    ELSE <<>>

\* mqtt_message_callback of app.c, the callback the application registers
mqtt_message_callback(topic, payload) == MavlinkBridge_OnMessage(topic, payload)

\* The strstr tests of A7600_MQTT_Process on the accumulated buffer acc,
\* cb telling whether a callback is registered: whether the callback is
\* called, whether the buffer is cleared after the message test, and
\* whether the connection-lost marker is then found in what is left.
Process_Scan(acc, cb) ==
    LET has_start   == Contains(acc, S_RXSTART)
        has_payload == Contains(acc, S_RXPAYLOAD)
        has_end     == Contains(acc, S_RXEND)
        buf         == IF has_start /\ has_end THEN <<>> ELSE acc
    IN  [invoke |-> has_start /\ has_payload /\ has_end /\ cb,
         clear  |-> has_start /\ has_end,
         lost   |-> Contains(buf, S_CONNLOST)]

\* A7600_MQTT_Process between two operations of the session.
A7600_MQTT_Process ==
    /\ pc = "idle"
    /\ cpc = "idle"
    /\ connected
    /\ LinkAvailable > 0
    /\ LET space == RxSpace(rx_len)
           r     == LinkRead(Min(LinkAvailable, space))
           acc   == rx_buffer \o r.data
           scan  == Process_Scan(acc, msg_callback)
       IN  /\ link_rx' = r.rest
           /\ rx_buffer' = IF scan.clear \/ scan.lost THEN <<>> ELSE acc
           /\ cb_count' = IF scan.invoke THEN cb_count + 1 ELSE cb_count
           /\ tel_tx' = IF scan.invoke
                        THEN tel_tx \o mqtt_message_callback(<<>>, acc)
                        ELSE tel_tx
           /\ proc' = [ran |-> TRUE, acc |-> acc, invoked |-> scan.invoke]
           /\ connected' = IF scan.lost THEN FALSE ELSE connected
           /\ state' = IF scan.lost THEN "Idle" ELSE state
    /\ rx_len' = Len(rx_buffer')
    /\ UNCHANGED <<chanVars, tx_busy, hw_tx, modem_out, callVars, obsVars, pc,
                   error_step, last_response, use_ssl, retry, result,
                   last_api, n_calls, phase_res, max_tx, tx_log, pub_len,
                   msg_callback, bridgeVars>>

\* A7600_MQTT_Process when there is nothing to do: not connected, or no
\* byte available.
A7600_MQTT_Process_Idle ==
    /\ pc = "idle"
    /\ cpc = "idle"
    /\ ~connected \/ LinkAvailable = 0
    /\ proc' = [ran |-> FALSE, acc |-> rx_buffer, invoked |-> FALSE]
    /\ UNCHANGED <<chanVars, tx_busy, linkVars, bufVars, callVars, obsVars, pc,
                   state, connected, error_step, last_response, use_ssl,
                   retry, result, last_api, n_calls, phase_res, max_tx,
                   tx_log, pub_len, msg_callback, cb_count, tel_tx, bridgeVars>>

-----------------------------------------------------------------------------
(* SpecProc: the periodic A7600_MQTT_Process on a resting session, the     *)
(* modem sending any short sequence of markers and other text.             *)

InitUrc ==
    /\ InitChannel
    /\ InitCall
    /\ link_rx = <<>>
    /\ hw_tx = "none"
    /\ modem_out \in SeqsUpTo(UrcSymbols, MaxUrc)
    /\ last_response = <<>>
    /\ retry = 0
    /\ result = "none"
    /\ last_api = "none"
    /\ n_calls = 0
    /\ phase_res = [n \in 1..10 |-> "none"]
    /\ max_tx = 0
    /\ tx_log = <<>>
    /\ pub_len = 0
    /\ use_ssl = TRUE
    /\ msg_callback \in BOOLEAN
    /\ proc = [ran |-> FALSE, acc |-> <<>>, invoked |-> FALSE]
    /\ cb_count = 0
    /\ tel_tx = <<>>
    /\ InitBridge
    /\ codec = [op |-> "none"]
    /\ \E s \in RestingSessions :
          /\ state = s.state
          /\ connected = s.connected
          /\ error_step = s.error_step
    /\ pc = "idle"

NextProc ==
    \/ A7600_MQTT_Process
    \/ A7600_MQTT_Process_Idle
    \/ \E k \in 1..MaxUrc : Modem_Deliver(k)

SpecProc == InitUrc /\ [][NextProc]_vars

\* s holds a start marker, later a payload marker, later an end marker
OrderedMarkers(s) ==
    \E i \in 1..Len(s) : \E j \in i..Len(s) :
        /\ Contains(SubSeq(s, 1, i), S_RXSTART)
        /\ Contains(SubSeq(s, i + 1, j), S_RXPAYLOAD)
        /\ Contains(SubSeq(s, j + 1, Len(s)), S_RXEND)

(* C13: A7600_MQTT_Process calls the registered callback exactly when the  *)
(* accumulated response buffer holds a start-of-message marker followed    *)
(* later by a payload marker and then an end marker, and the response      *)
(* buffer is empty after the call.                                         *)
C13_CallbackOnOrderedMarkers ==
    (proc.ran /\ msg_callback) =>
        /\ proc.invoked = OrderedMarkers(proc.acc)
        /\ proc.invoked => rx_buffer = <<>>

\* The program runs: the application loop calls A7600_MQTT_Process again
\* and again, and the modem sends what it has to send.
-----------------------------------------------------------------------------
(* SpecInbound: the broker delivers one message on the reverse topic whose *)
(* payload is the Base64 text of a byte sequence; the modem reports it and *)
(* A7600_MQTT_Process runs as the bytes come in.                           *)

S_RXTOPIC == <<"+CMQTTRXTOPIC:">>

\* longest byte sequence sent to the vehicle
MaxInbound == 2

\* the modem's report of a message: start marker, topic, payload, end marker
InboundMessage(topic, text) ==
    S_RXSTART \o S_RXTOPIC \o <<topic>> \o S_RXPAYLOAD \o text \o S_RXEND

InitInbound ==
    /\ InitChannel
    /\ InitCall
    /\ link_rx = <<>>
    /\ hw_tx = "none"
    /\ last_response = <<>>
    /\ retry = 0
    /\ result = "none"
    /\ last_api = "none"
    /\ n_calls = 0
    /\ phase_res = [n \in 1..10 |-> "none"]
    /\ max_tx = 0
    /\ tx_log = <<>>
    /\ pub_len = 0
    /\ use_ssl = TRUE
    /\ InitProc
    /\ InitBridge
    /\ state = "Connected"
    /\ connected = TRUE
    /\ error_step = 0
    /\ pc = "idle"
    /\ codec \in {[op |-> "to_base64", x |-> x, text |-> to_base64(x)] :
                     x \in SeqsUpTo(CodecBytes, MaxInbound) \ {<<>>}}
    /\ modem_out = InboundMessage(BRIDGE_TOPIC_RX, codec.text)

NextInbound ==
    \/ A7600_MQTT_Process
    \/ A7600_MQTT_Process_Idle
    \/ \E k \in 1..(Len(S_RXSTART) + MaxPending) : Modem_Deliver(k)

SpecInbound == InitInbound /\ [][NextInbound]_vars

(* C19: when A7600_MQTT_Process receives a complete inbound message on the *)
(* reverse topic and the application's callback is registered, the bridge  *)
(* decodes the message's text and transmits exactly the decoded bytes, and *)
(* nothing else, on the telemetry UART.                                    *)
C19_InboundForwarded ==
    (proc.ran /\ msg_callback /\ OrderedMarkers(proc.acc)
        /\ Contains(proc.acc, <<BRIDGE_TOPIC_RX>>))
        => tel_tx = <<codec.x>>

\* Inbound messages on a link that also carries exchanges: the
\* application subscribes while the modem reports a message, and
\* A7600_MQTT_Process runs between the operations.
NextMix ==
    \/ A7600_MQTT_Subscribe_Call
    \/ Subscribe_Return
    \/ ExchangeStep
    \/ LinkStepWhole
    \/ A7600_MQTT_Process
    \/ A7600_MQTT_Process_Idle

SpecMix == InitInbound /\ [][NextMix]_vars

\* the main loop keeps calling A7600_MQTT_Process, exchanges run to their
\* return, the link delivers what the modem sends
SpecMixFair ==
    /\ SpecMix
    /\ WF_vars(A7600_MQTT_Process)
    /\ WF_vars(ExchangeStep)
    /\ WF_vars(Subscribe_Return)
    /\ WF_vars(LinkStepWhole)

(* C34: every complete inbound message the modem delivers to a connected   *)
(* session with a registered callback is eventually dispatched to the      *)
(* callback by some A7600_MQTT_Process call, however the calls interleave  *)
(* with exchanges on the same link.                                        *)
C34_InboundEventuallyDispatched == <>(cb_count > 0)

SpecProcFair ==
    /\ SpecProc
    /\ WF_vars(A7600_MQTT_Process)
    /\ WF_vars(\E k \in 1..MaxUrc : Modem_Deliver(k))

(* C14: whenever the connection-lost marker reaches a connected session,   *)
(* the session ends up with connected false and state Idle, whatever       *)
(* other bytes arrive together with the marker.                            *)
C14_ConnLostDisconnects ==
    (connected /\ Contains(link_rx, S_CONNLOST))
        ~> (~connected /\ state = "Idle")

-----------------------------------------------------------------------------
(* SpecFill: a connected session whose modem pours out more text than the  *)
(* response buffer holds, none of it a marker, while the application       *)
(* subscribes and runs A7600_MQTT_Process.                                 *)

\* bytes the modem sends in this behaviour
MaxNoise == 1024

\* a byte that belongs to no marker
NoiseByte == "x"

\* sizes of the bursts the modem sends them in
FillChunks == {MQTT_RX_BUFFER_SIZE \div 2, MQTT_RX_BUFFER_SIZE - 1}

\* handle->rx_buffer as the array it is: clear_rx_buffer zeroes all of it
\* and a read writes only below the new rx_len
RxArray ==
    [i \in 1..MQTT_RX_BUFFER_SIZE |->
        IF i <= Len(rx_buffer) THEN rx_buffer[i] ELSE 0]

InitFill ==
    /\ InitChannel
    /\ InitCall
    /\ link_rx = <<>>
    /\ hw_tx = "none"
    /\ modem_out = [i \in 1..MaxNoise |-> NoiseByte]
    /\ last_response = <<>>
    /\ retry = 0
    /\ result = "none"
    /\ last_api = "none"
    /\ n_calls = 0
    /\ phase_res = [n \in 1..10 |-> "none"]
    /\ max_tx = 0
    /\ tx_log = <<>>
    /\ pub_len = 0
    /\ InitProc
    /\ InitBridge
    /\ codec = [op |-> "none"]
    /\ use_ssl = TRUE
    /\ state = "Connected"
    /\ connected = TRUE
    /\ error_step = 0
    /\ pc = "idle"

NextFill ==
    \/ A7600_MQTT_Subscribe_Call
    \/ Subscribe_Return
    \/ ExchangeStep
    \/ Link_TxCplt
    \/ \E k \in FillChunks : Modem_Deliver(k)
    \/ A7600_MQTT_Process
    \/ A7600_MQTT_Process_Idle

SpecFill == InitFill /\ [][NextFill]_vars

(* C21: in every reachable state the response buffer holds at most         *)
(* capacity - 1 = 511 bytes and the byte at index rx_len is 0, whatever    *)
(* the exchanges and the A7600_MQTT_Process calls have read; and the       *)
(* buffer is empty when a send_and_wait exchange begins.                   *)
C21_ResponseBufferBounded ==
    /\ [](/\ rx_len = Len(rx_buffer)
          /\ rx_len <= MQTT_RX_BUFFER_SIZE - 1
          /\ RxArray[rx_len + 1] = 0)
    /\ [][(cpc # "tx_wait" /\ cpc' = "tx_wait") =>
             (rx_len' = 0 /\ rx_buffer' = <<>>)]_vars

\* an exchange has returned with the buffer full and bytes left unread
C21_Witness ==
    /\ cpc = "ret"
    /\ pc = "sub"
    /\ rx_len = MQTT_RX_BUFFER_SIZE - 1
    /\ LinkAvailable > 0

\* ---------------------------------------------------------------------------
\* The bridge's accumulation under a dense telemetry stream: frames back to
\* back, arriving in pieces that split them off their boundaries, and in
\* one burst that fills the telemetry UART's ring, so that a read stops at
\* the capacity of rx_buf and one call extracts many frames.

\* payload length of the frames of the dense stream
DensePayload == 24

\* an unsigned frame of that payload length, no byte behind the header
\* equal to the magic byte
DenseFrame ==
    <<MAVLINK_V2_MAGIC, DensePayload, 0>>
        \o [i \in 1..(PacketLen(DensePayload, 0) - 3) |-> i]

\* frames in the dense stream: more bytes than rx_buf holds
DenseFrames == BRIDGE_RX_BUF_SIZE \div Len(DenseFrame) + 2

\* arrivals: half a frame, and what the ring of the telemetry UART can
\* hold
DensePieces == {Len(DenseFrame) \div 2, LINK_RX_BUFFER_SIZE - 1}

InitDense ==
    /\ InitBridgeSession
    /\ tel_stream = [i \in 1..DenseFrames |-> "dense"]
    /\ tel_in = [i \in 1..(DenseFrames * Len(DenseFrame)) |->
                    DenseFrame[((i - 1) % Len(DenseFrame)) + 1]]
    /\ tel_pause = -1

\* the ring of the telemetry UART is read before it wraps
Tel_ReceiveDense(k) ==
    /\ Len(tel_rx) + k <= LINK_RX_BUFFER_SIZE - 1
    /\ Tel_Receive(k)

NextDense ==
    \/ \E resp \in PublishResponses : MavlinkBridge_Process(resp)
    \/ \E k \in DensePieces : Tel_ReceiveDense(k)

SpecDense == InitDense /\ [][NextDense]_vars

\* the accumulation a MavlinkBridge_Process step parses: what was held and
\* what the step took from the telemetry UART
Accumulated ==
    bridge_rx_buf \o SubSeq(tel_rx, 1, Len(tel_rx) - Len(tel_rx'))

\* a complete frame starts behind the first pos bytes of buf
FrameAt(buf, pos) ==
    /\ Len(buf) >= pos + 3
    /\ buf[pos + 1] = MAVLINK_V2_MAGIC
    /\ PacketLen(buf[pos + 2], buf[pos + 3]) <= PACKET_LEN_CEILING
    /\ Len(buf) >= pos + PacketLen(buf[pos + 2], buf[pos + 3])

\* the incomplete beginning of a frame, or nothing, lies behind the first
\* pos bytes of buf
PartialAt(buf, pos) ==
    \/ Len(buf) = pos
    \/ /\ buf[pos + 1] = MAVLINK_V2_MAGIC
       /\ \/ Len(buf) < pos + 3
          \/ /\ PacketLen(buf[pos + 2], buf[pos + 3]) <= PACKET_LEN_CEILING
             /\ Len(buf) < pos + PacketLen(buf[pos + 2], buf[pos + 3])

\* the ends of the complete frames that follow one another from pos on
RECURSIVE FrameEnds(_, _)
FrameEnds(buf, pos) ==
    IF FrameAt(buf, pos)
    THEN LET e == pos + PacketLen(buf[pos + 2], buf[pos + 3])
         IN  <<e>> \o FrameEnds(buf, e)
    ELSE <<>>

(* C30: a MavlinkBridge_Process step whose accumulation of length n starts *)
(* with complete frames, of computed lengths summing to L, followed by the *)
(* beginning of a frame or by nothing, publishes each frame's bytes and    *)
(* leaves the accumulation with length n - L, holding the former bytes     *)
(* L..n-1 in order; and the accumulation never exceeds the capacity of     *)
(* rx_buf (512), neither before or after a step nor after the read of a    *)
(* call.                                                                   *)
C30_FrameRemovalExact ==
    [][/\ Len(bridge_rx_buf) <= BRIDGE_RX_BUF_SIZE
       /\ Len(bridge_rx_buf') <= BRIDGE_RX_BUF_SIZE
       /\ (\E resp \in PublishResponses : MavlinkBridge_Process(resp)) =>
             \A buf \in {Accumulated} : \A ends \in {FrameEnds(buf, 0)} :
             LET n    == Len(buf)
                 k    == Len(ends)
                 L    == ends[k]
                 from == [i \in 1..k |-> IF i = 1 THEN 0 ELSE ends[i - 1]]
             IN  /\ n <= BRIDGE_RX_BUF_SIZE
                 /\ (k > 0 /\ PartialAt(buf, L) /\ ~timed_out') =>
                       /\ Len(bridge_rx_buf') = n - L
                       /\ bridge_rx_buf' = SubSeq(buf, L + 1, n)
                       /\ pub_log' = pub_log \o
                             [i \in 1..k |->
                                [topic   |-> BRIDGE_TOPIC_TX,
                                 payload |-> to_base64(
                                     SubSeq(buf, from[i] + 1, ends[i]))]]
      ]_vars

\* half a frame was held when a burst arrived: the read stopped at the
\* capacity of rx_buf, every complete frame of the accumulation was
\* extracted, the beginning of the next is held, and the bytes that found
\* no space are still in the telemetry UART
C30_Witness ==
    /\ Len(pub_log) = BRIDGE_RX_BUF_SIZE \div Len(DenseFrame)
    /\ Len(bridge_rx_buf) = BRIDGE_RX_BUF_SIZE % Len(DenseFrame)
    /\ IsPrefix(bridge_rx_buf, DenseFrame)
    /\ Len(tel_rx) + BRIDGE_RX_BUF_SIZE =
          Len(DenseFrame) \div 2 + LINK_RX_BUFFER_SIZE - 1
    /\ Len(tel_in) + Len(tel_rx) + BRIDGE_RX_BUF_SIZE =
          DenseFrames * Len(DenseFrame)

\* A step of SpecBridge is a call of MavlinkBridge_Process: no byte has
\* arrived from the vehicle and the tick has not advanced, which is what
\* the other two actions of the specification do.
ProcessReturned == tel_in' = tel_in /\ now' = now

(* C35: a step of MavlinkBridge_Process, whether the modem acknowledges   *)
(* its publishes, answers with an error line or lets an exchange time out, *)
(* leaves in the accumulation the beginning of a frame or       *)
(* nothing, so no extracted frame stays to be published again; and, as     *)
(* long as the frame timeout has discarded nothing, the published payloads *)
(* are the encodings of the first frames of the stream, one publish for    *)
(* each, a failed publish being followed by the next frame and never by    *)
(* the same one.                                                           *)
C35_PublishedAtMostOnce ==
    [][ProcessReturned =>
          /\ PartialAt(bridge_rx_buf', 0)
          /\ ~timed_out' =>
                IsPrefix(PublishedPayloads', ExpectedPayloads)]_vars

\* the last of two frames was published without success, both frames were
\* published once and nothing is left in the accumulation
C35_Witness ==
    /\ StreamConsumed
    /\ ~timed_out
    /\ rx_buffer = S_ERROR
    /\ hw_tx = "AT+CMQTTTOPIC"
    /\ Len(pub_log) = 2
    /\ PublishedPayloads = ExpectedPayloads
    /\ bridge_rx_buf = <<>>

-----------------------------------------------------------------------------
(* The parse loop of MavlinkBridge_Process, one iteration at a time.       *)

\* an iteration that finds a byte other than the magic byte in front and
\* leaves it there
ParseIteration_KeepsGarbage(buf) ==
    IF buf[1] # MAVLINK_V2_MAGIC THEN [buf |-> buf, exit |-> FALSE]
    ELSE IF Len(buf) < 3 THEN [buf |-> buf, exit |-> TRUE]
    ELSE LET packet_len == PacketLen(buf[2], buf[3])
         IN  IF packet_len > PACKET_LEN_CEILING
             THEN [buf |-> Tail(buf), exit |-> FALSE]
             ELSE IF Len(buf) >= packet_len
             THEN [buf |-> RemoveFrame(buf, packet_len), exit |-> FALSE]
             ELSE [buf |-> buf, exit |-> TRUE]

\* One iteration of `while (bridge.rx_len > 0)` on the accumulation buf,
\* which is not empty: the accumulation it leaves, and whether it leaves
\* the loop by a break.
ParseIteration(buf) ==
    IF buf[1] # MAVLINK_V2_MAGIC THEN [buf |-> Tail(buf), exit |-> FALSE]
    ELSE IF Len(buf) < 3 THEN [buf |-> buf, exit |-> TRUE]
    ELSE LET packet_len == PacketLen(buf[2], buf[3])
         IN  IF packet_len > PACKET_LEN_CEILING
             THEN [buf |-> Tail(buf), exit |-> FALSE]
             ELSE IF Len(buf) >= packet_len
             THEN [buf |-> RemoveFrame(buf, packet_len), exit |-> FALSE]
             ELSE [buf |-> buf, exit |-> TRUE]

\* The accumulation each time the loop condition is evaluated, from buf on,
\* for at most n iterations.
RECURSIVE LoopHeads(_, _)
LoopHeads(buf, n) ==
    IF Len(buf) = 0 \/ n = 0 THEN <<buf>>
    ELSE LET it == ParseIteration(buf)
         IN  IF it.exit THEN <<buf>>
             ELSE <<buf>> \o LoopHeads(it.buf, n - 1)

\* the loop is left with the accumulation buf: rx_len is 0, or a break
LoopLeft(buf) == Len(buf) = 0 \/ ParseIteration(buf).exit

(* C38: a call of MavlinkBridge_Process returns: it returns at the frame   *)
(* timeout with an empty accumulation, or it runs the parse loop, of which *)
(* every iteration that does not leave the loop makes the accumulation     *)
(* shorter, so that the loop is left after at most as many iterations as   *)
(* the accumulation has bytes; what the call leaves is what the loop was   *)
(* left with: nothing, fewer than 3 bytes, or the beginning of a frame     *)
(* whose computed length is at most 300 and which is not complete, hence   *)
(* fewer than 300 bytes.                                                   *)
C38_ProcessTerminates ==
    [][ProcessReturned =>
          \/ /\ timed_out'
             /\ bridge_rx_buf' = <<>>
             /\ pub_log' = pub_log
          \/ \A acc \in {Accumulated} :
                \A heads \in {LoopHeads(acc, Len(acc))} :
                   /\ \A i \in 1..(Len(heads) - 1) :
                         Len(heads[i + 1]) < Len(heads[i])
                   /\ LoopLeft(heads[Len(heads)])
                   /\ bridge_rx_buf' = heads[Len(heads)]
                   /\ PartialAt(bridge_rx_buf', 0)
                   /\ Len(bridge_rx_buf') < PACKET_LEN_CEILING]_vars

\* garbage and a frame have been taken and the frame published; a call
\* has returned holding the beginning of the next frame
C38_Witness ==
    /\ Len(tel_stream) = 3
    /\ tel_stream[1] = "garbage"
    /\ Len(pub_log) = 1
    /\ Len(bridge_rx_buf) \in 3..11
    /\ tel_rx = <<>>
    /\ ~timed_out
    /\ now = 0

-----------------------------------------------------------------------------
(* SpecHeader: the vehicle sends the first three bytes of a frame, the     *)
(* magic byte, the payload length and the flags, with every value of the   *)
(* two bytes; MavlinkBridge_Process computes the frame length from them.   *)

InitHeader ==
    /\ InitBridgeSession
    /\ tel_stream = <<>>
    /\ \E payload_len \in 0..255, incompat_flags \in 0..255 :
          tel_in = <<MAVLINK_V2_MAGIC, payload_len, incompat_flags>>
    /\ tel_pause = -1

\* the three bytes arrive together
Tel_ReceiveHeader == Tel_Receive(3)

NextHeader ==
    \/ \E resp \in PublishResponses : MavlinkBridge_Process(resp)
    \/ Tel_ReceiveHeader

SpecHeader == InitHeader /\ [][NextHeader]_vars

\* the longest frame: 255 payload bytes, signed
MAX_PACKET_LEN ==
    MAVLINK_HEADER_LEN + 255 + MAVLINK_CHECKSUM_LEN + MAVLINK_SIG_LEN

(* C37: for every value of the payload-length byte and of the flags byte,  *)
(* the frame length computed from a header is 10 + payload_len + 2, plus   *)
(* 13 when bit 0 of the flags byte is set, and is at most 280, below the   *)
(* ceiling of 300: the step of MavlinkBridge_Process that takes the header *)
(* does not take the oversize branch, which would drop the magic byte, and *)
(* keeps the three bytes as the beginning of a frame.                      *)
C37_PacketLenFormula ==
    [][\A resp \in PublishResponses :
          (MavlinkBridge_Process(resp) /\ Len(tel_rx) = 3) =>
              LET payload_len    == tel_rx[2]
                  incompat_flags == tel_rx[3]
                  packet_len     == PacketLen(payload_len, incompat_flags)
                  signed ==
                      \E hi \in 0..127 : incompat_flags = 2 * hi + 1
              IN  /\ packet_len = 10 + payload_len + 2
                                   + (IF signed THEN 13 ELSE 0)
                  /\ packet_len <= MAX_PACKET_LEN
                  /\ packet_len <= PACKET_LEN_CEILING
                  /\ bridge_rx_buf' = tel_rx
                  /\ pub_log' = pub_log]_vars

\* the header of the longest frame has been taken and is held
C37_Witness ==
    /\ bridge_rx_buf = <<MAVLINK_V2_MAGIC, 255, 255>>
    /\ tel_rx = <<>>
    /\ tel_in = <<>>
    /\ pub_log = <<>>

-----------------------------------------------------------------------------
(* SpecApp: the application loop of app.c. One step is one call of App_Run *)
(* from the main loop, with the session operations it makes taken whole:   *)
(* what they leave in handle->state, handle->connected and                 *)
(* handle->error_step, and the time they block. The bytes of their         *)
(* exchanges are followed in SpecConnect, SpecDisc, SpecSub and SpecPub.   *)
(* Time stays far below the wrap of the 32-bit tick.                       *)

APP_PUBLISH_INTERVAL == 5000
APP_RECONNECT_INTERVAL == 30000
\* the interval of the WAIT_MODULE branch and the delay of the ERROR branch
APP_WAIT_INTERVAL == 5000
APP_ERROR_DELAY == 1000
\* the delays between the exchanges of A7600_MQTT_Disconnect
DISCONNECT_DELAY == 500

\* session operations the application may make in one behaviour
MaxAppCalls == 6

\* the phases at which A7600_MQTT_Connect gives up, 0 for none: every
\* phase but the sixth, the ninth only with TLS
ConnectOutcomes(ssl) == {n \in 0..10 : n # 6 /\ (n = 9 => ssl)}

\* what a blocking call takes beyond its fixed delays
BlockingTimes == {0, APP_ERROR_DELAY}

\* the test of the ERROR branch
ReconnectDue(current_tick, h) ==
    current_tick - h.last_reconnect_tick >= APP_RECONNECT_INTERVAL

\* the test of the WAIT_MODULE branch
ConnectDue(current_tick, h) ==
    current_tick - h.last_reconnect_tick >= APP_WAIT_INTERVAL

\* the test of the periodic status publish
PublishDue(current_tick, h) ==
    current_tick - h.last_publish_tick >= APP_PUBLISH_INTERVAL

\* App_Run in WAIT_MODULE with the interval passed: App_Connect. fail is
\* the phase at which A7600_MQTT_Connect gives up (0: it succeeds), pub
\* the result of the status publish, d the time the calls take.
App_Run_WaitModule(fail, pub, d) ==
    /\ app.state = "WAIT_MODULE"
    /\ ConnectDue(now, app)
    /\ IF fail = 0
       THEN /\ state' = "Connected"
            /\ connected' = TRUE
            /\ error_step' = 0
            /\ result' = pub
            /\ last_api' = "Publish"
            /\ n_calls' = n_calls + 3
            /\ app' = [app EXCEPT !.state = "CONNECTED",
                                  !.last_reconnect_tick = now,
                                  !.error_count = 0]
       ELSE /\ state' = "Error"
            /\ error_step' = fail
            /\ result' = "MQTT_ERROR"
            /\ last_api' = "Connect"
            /\ n_calls' = n_calls + 1
            /\ app' = [app EXCEPT !.state = "ERROR",
                                  !.last_reconnect_tick = now,
                                  !.error_count = app.error_count + 1]
            /\ UNCHANGED connected
    /\ last_response' = <<>>
    /\ now' = now + d

\* App_Run in CONNECTED: A7600_MQTT_Process, MavlinkBridge_Process with no
\* telemetry waiting, the connection check and the publish timer. lost:
\* the modem has reported the connection lost.
App_Run_Connected(lost, d) ==
    /\ app.state = "CONNECTED"
    /\ bridge_rx_buf = <<>> /\ tel_rx = <<>>
    /\ connected' = (connected /\ ~lost)
    /\ state' = IF connected /\ lost THEN "Idle" ELSE state
    /\ app' = IF ~connected'
              THEN [app EXCEPT !.state = "ERROR"]
              ELSE IF PublishDue(now, app)
              THEN [app EXCEPT !.last_publish_tick = now]
              ELSE app
    /\ last_api' = "Process"
    /\ n_calls' = n_calls + 1
    /\ now' = now + d
    /\ UNCHANGED <<error_step, result, last_response>>

\* an ERROR branch that tears down and stays in ERROR
App_Run_Error_Stays(d) ==
    /\ app.state = "ERROR"
    /\ ReconnectDue(now, app)
    /\ state' = "Idle"
    /\ connected' = FALSE
    /\ result' = "MQTT_OK"
    /\ last_api' = "Disconnect"
    /\ n_calls' = n_calls + 1
    /\ app' = [app EXCEPT !.last_reconnect_tick = now]
    /\ now' = now + 2 * DISCONNECT_DELAY + APP_ERROR_DELAY + d
    /\ UNCHANGED <<error_step, last_response>>

\* App_Run in ERROR with the interval passed: A7600_MQTT_Disconnect, the
\* delay, and WAIT_MODULE
App_Run_Error(d) ==
    /\ app.state = "ERROR"
    /\ ReconnectDue(now, app)
    /\ state' = "Idle"
    /\ connected' = FALSE
    /\ result' = "MQTT_OK"
    /\ last_api' = "Disconnect"
    /\ n_calls' = n_calls + 1
    /\ app' = [app EXCEPT !.state = "WAIT_MODULE",
                          !.last_reconnect_tick = now]
    /\ now' = now + 2 * DISCONNECT_DELAY + APP_ERROR_DELAY + d
    /\ UNCHANGED <<error_step, last_response>>

\* App_Run. In WAIT_MODULE and ERROR before the interval has passed it
\* changes nothing.
App_Run ==
    /\ pc = "idle"
    /\ cpc = "idle"
    /\ n_calls < MaxAppCalls
    /\ \E d \in BlockingTimes :
          \/ \E fail \in ConnectOutcomes(use_ssl),
                pub \in {"MQTT_OK", "MQTT_ERROR"} :
                App_Run_WaitModule(fail, pub, d)
          \/ \E lost \in BOOLEAN : App_Run_Connected(lost, d)
          \/ App_Run_Error(d)
    /\ UNCHANGED <<ringVars, txVars, last, linkVars, bufVars, callVars,
                   obsVars, pc, use_ssl, retry, phase_res, max_tx, tx_log,
                   pub_len, procVars, bridge_rx_buf, last_rx_tick,
                   tel_stream, tel_in, tel_pause, tel_rx, pub_log,
                   timed_out, codec, rd>>

\* the interval the application is waiting for has not passed
IntervalRunning ==
    \/ app.state = "WAIT_MODULE" /\ ~ConnectDue(now, app)
    \/ app.state = "ERROR" /\ ~ReconnectDue(now, app)
    \/ app.state = "CONNECTED" /\ ~PublishDue(now, app)

\* HAL_GetTick advances between two calls of App_Run. Time is followed
\* while the application waits for an interval; once the interval has
\* passed, more time changes nothing of what App_Run does.
App_Tick ==
    /\ IntervalRunning
    /\ now' = now + APP_ERROR_DELAY
    /\ UNCHANGED <<chanVars, tx_busy, driverVars, procVars, codec,
                   bridge_rx_buf, last_rx_tick, tel_stream, tel_in, tel_pause,
                   tel_rx, pub_log, timed_out>>

\* after App_Init: the session initialised with TLS, the callback set,
\* the application in WAIT_MODULE
InitApp ==
    /\ InitChannel
    /\ InitLink
    /\ InitCall
    /\ InitSession
    /\ use_ssl = TRUE
    /\ error_step = 0
    /\ pc = "idle"

NextApp ==
    \/ App_Run
    \/ App_Tick

SpecApp == InitApp /\ [][NextApp]_vars

\* the main loop keeps calling App_Run and the tick keeps advancing
SpecAppFair == SpecApp /\ WF_vars(App_Run) /\ WF_vars(App_Tick)

\* the application has just torn the session down and waits to connect
TornDown ==
    /\ app.state = "WAIT_MODULE"
    /\ last_api = "Disconnect"
    /\ ~connected

\* App_Connect has run since: it succeeded, or failed into ERROR
ConnectAttempted ==
    \/ app.state = "CONNECTED" /\ last_api = "Publish"
    \/ app.state = "ERROR" /\ last_api = "Connect"

(* C31: under the application loop with ticks advancing, whenever the      *)
(* application is in ERROR (with two session operations left of the        *)
(* modelled budget) it eventually calls A7600_MQTT_Disconnect and moves to *)
(* WAIT_MODULE, and from there it eventually makes a new                   *)
(* A7600_MQTT_Connect attempt; it never stays in ERROR.                    *)
C31_ErrorLeadsToReconnect ==
    /\ (app.state = "ERROR" /\ n_calls + 2 <= MaxAppCalls)
          ~> (TornDown /\ n_calls < MaxAppCalls)
    /\ (TornDown /\ n_calls < MaxAppCalls) ~> ConnectAttempted

\* a failed bring-up, the teardown after the reconnect interval, and a
\* bring-up that succeeded
C31_Witness ==
    /\ app.state = "CONNECTED"
    /\ last_api = "Publish"
    /\ n_calls = 5
    /\ now >= APP_WAIT_INTERVAL + APP_RECONNECT_INTERVAL + APP_WAIT_INTERVAL

-----------------------------------------------------------------------------
(* SpecStream: UART_DMA_Read and UART_DMA_ReadByte taken statement by      *)
(* statement, the DMA storing bytes between any two statements, with the   *)
(* producer staying fewer than a buffer ahead of the read cursor.          *)

\* everything but the receive ring, its observation and rd
streamRest == <<txVars, linkVars, bufVars, callVars, pc, obsVars, sessVars,
                app>>

\* a copy that takes the byte at the handle's cursor instead of at the
\* local read_pos
CopyByte_FromCursor(r) ==
    [r EXCEPT !.data = Append(@, uart_rx_buffer[rx_read_pos]),
              !.read_pos = (@ + 1) % RingSize,
              !.i = @ + 1]

\* one iteration of the for loop of UART_DMA_Read on the locals r
CopyByte(r) ==
    [r EXCEPT !.data = Append(@, uart_rx_buffer[r.read_pos]),
              !.read_pos = (@ + 1) % RingSize,
              !.i = @ + 1]

\* UART_DMA_Read is entered: available, to_read and read_pos are taken
Read_Begin(len) ==
    /\ rd.pc = "idle"
    /\ rd' = [pc |-> "copy", out |-> rd.out, len |-> len,
              to_read |-> Min(len, UART_DMA_Available), i |-> 0,
              read_pos |-> rx_read_pos, data |-> <<>>, pre |-> RxSnapshot]
    /\ UNCHANGED <<ringVars, last, streamRest>>

Read_Copy ==
    /\ rd.pc = "copy"
    /\ rd.i < rd.to_read
    /\ rd' = CopyByte(rd)
    /\ UNCHANGED <<ringVars, last, streamRest>>

\* the loop is over: handle->rx_read_pos = read_pos; return read_count
Read_Return ==
    /\ rd.pc = "copy"
    /\ rd.i = rd.to_read
    /\ rx_read_pos' = rd.read_pos
    /\ n_consumed' = n_consumed + rd.i
    /\ last' = [op |-> "read", len |-> rd.len, ret |-> rd.i,
                data |-> rd.data, pre |-> rd.pre]
    /\ rd' = [pc |-> "idle", out |-> rd.out \o rd.data]
    /\ UNCHANGED <<dma_counter, uart_rx_buffer, produced, streamRest>>

\* UART_DMA_ReadByte is entered: it returns false when nothing is available
ReadByte_Begin ==
    /\ rd.pc = "idle"
    /\ IF UART_DMA_Available = 0
       THEN /\ last' = [op |-> "readbyte", ret |-> FALSE, pre |-> RxSnapshot]
            /\ UNCHANGED rd
       ELSE /\ rd' = [pc |-> "byte", out |-> rd.out, pre |-> RxSnapshot]
            /\ UNCHANGED last
    /\ UNCHANGED <<ringVars, streamRest>>

\* the byte at the cursor is taken and the cursor advanced
ReadByte_Take ==
    /\ rd.pc = "byte"
    /\ rx_read_pos' = (rx_read_pos + 1) % RingSize
    /\ n_consumed' = n_consumed + 1
    /\ last' = [op |-> "readbyte", ret |-> TRUE,
                data |-> uart_rx_buffer[rx_read_pos], pre |-> rd.pre]
    /\ rd' = [pc |-> "idle", out |-> Append(rd.out, uart_rx_buffer[rx_read_pos])]
    /\ UNCHANGED <<dma_counter, uart_rx_buffer, produced, streamRest>>

\* The DMA stores a byte while fewer than RingSize - 1 bytes are unread:
\* the sender keeps the producer less than a buffer ahead of the cursor.
Stream_Receive(b) ==
    /\ Unread + 1 < RingSize
    /\ DMA_Receive(b)

NextStream ==
    \/ \E b \in Byte : Stream_Receive(b)
    \/ \E len \in 0..MaxLen : Read_Begin(len)
    \/ Read_Copy
    \/ Read_Return
    \/ ReadByte_Begin
    \/ ReadByte_Take

SpecStream == InitRing /\ [][NextStream]_vars

\* the bytes the read in progress has copied so far
CopiedSoFar == IF rd.pc = "copy" THEN rd.data ELSE <<>>

(* C39: as long as the producer is never a whole buffer or more ahead of   *)
(* the read cursor, the bytes returned by the UART_DMA_Read and            *)
(* UART_DMA_ReadByte calls so far, in the order returned, followed by the  *)
(* bytes a read in progress has copied, are the first bytes the producer   *)
(* wrote, none lost, repeated or out of order, however the producer's      *)
(* steps fall between the statements of the calls.                         *)
C39_ReadsArePrefixOfWritten ==
    /\ Unread < RingSize
    /\ Len(rd.out) = n_consumed
    /\ IsPrefix(rd.out \o CopiedSoFar, produced)

\* a read that straddled the end of the buffer has returned, bytes having
\* arrived while it copied; more bytes than the buffer holds have been read
C39_Witness ==
    /\ rd.pc = "idle"
    /\ last.op = "read"
    /\ last.ret >= 2
    /\ last.pre.pos + last.ret > RingSize
    /\ Unread + last.ret > last.pre.avail
    /\ Len(rd.out) > RingSize
    /\ \E i, j \in 1..Len(rd.out) : rd.out[i] # rd.out[j]

=============================================================================
